---- MODULE Spec2Model ----
(***************************************************************************)
(* Model of the OS_City simulation kernel (GP/src/core/kernel.py), the     *)
(* subsystem worker template (GP/src/subsystems/base.py) and the shared    *)
(* context (GP/src/core/context.py).                                       *)
(*                                                                         *)
(* Threads: the kernel loop (kpc), one worker per subsystem (wpc), one     *)
(* caller running CityKernel.shutdown (spc), and callers of                *)
(* set_control_state and reset.  Every action is one atomic step of one    *)
(* thread: a blocking call is an action whose guard is the wake condition, *)
(* and statements that touch shared state are separate actions.            *)
(*                                                                         *)
(* Spec is one kernel lifetime as main._run_headless drives it (bootstrap, *)
(* run, shutdown once run has returned) with a caller that pauses and      *)
(* resumes at any moment; SpecReset is a sequence of lifetimes separated   *)
(* by reset().  A subsystem's snapshot is the index of the tick it has     *)
(* just executed, as in the scenarios of the specification.                *)
(*                                                                         *)
(* Further specifications widen the lifetime by one kind of caller each:   *)
(* SpecStop (shutdown from another thread during the run), SpecRestop      *)
(* (shutdown called again), SpecStream (a consumer of the metrics stream,  *)
(* with reset), SpecLifecycle (register_subsystems, bootstrap and run in   *)
(* any order).  SpecLive, SpecStopLive, SpecPauseStopLive and SpecFailLive *)
(* add a fair scheduler for the properties that say something eventually   *)
(* happens.                                                                *)
(*                                                                         *)
(* SpecForce and SpecRebootstrap are about bootstrap itself (a             *)
(* configuration the factory rejects, a second bootstrap during a run).    *)
(* The SimulationController (GP/src/core/controller.py) is modelled on top *)
(* of the kernel: SpecSetControl and SpecControls are its control plane    *)
(* (set_control, pause, set_control_state), SpecController and SpecRestart *)
(* its lifecycle (start, reset, the runner and the metrics consumer).      *)
(* SpecHistory fills the history buffer to its limit, SpecNaturalEnd is a  *)
(* run that ends by itself at max_ticks, SpecSetters calls the control     *)
(* methods from several threads at once, SpecStale follows the worker      *)
(* threads a reset without shutdown leaves behind.  SpecContext is a       *)
(* client of the CityContext alone and SpecFactory a caller of             *)
(* build_subsystems_from_config (GP/src/subsystems/factory.py).            *)
(***************************************************************************)
EXTENDS Integers, Sequences, FiniteSets, TLC

\* ------------------------------------------------------------------ bounds
MaxTicksBound == 2      \* the max_ticks the kernel is constructed with (M)
MetricsBuffer == 3      \* config["metrics_buffer"] of the modelled run
MaxBarriers == 3        \* how many Barrier objects bootstrap calls build at most
MaxResets == 1          \* how many times reset() is called at most
MaxControllerResets == 3 \* how many times the controller resets the kernel
MaxHeld == 2            \* how many snapshot mappings a client holds at most
MaxTimers == 1          \* how many Timers of trigger_emergency are pending at a time
MaxThreadTicks == 4     \* how many ticks an old worker thread is followed for
MaxClientTick == 1      \* the largest tick a client passes to Context.update
MaxClientMetric == 2    \* the largest value a client writes into a mapping

\* config["subsystems"]: the identifiers of the configured subsystems, in the
\* order in which the factory builds them (the two-subsystem configuration).
SubsystemOrder == <<"A", "B">>

Subsystems == {SubsystemOrder[i] : i \in 1..Len(SubsystemOrder)}

NumSubsystems == Len(SubsystemOrder)

\* Python's None for a missing Context entry, and get_metric's default.
NoSnapshot == <<>>
DefaultMetric == -1

\* SimulationController._history_limit
HistoryLimit == 300

VARIABLES
    running,          \* CityKernel._running (Event)
    tick_event,       \* CityKernel._tick_event (Event)
    tick_index,       \* CityKernel._tick_index
    pause_event,      \* CityKernel._pause_event (Event; set = not paused)
    barrier_parties,  \* parties of CityKernel._tick_barrier, 0 = None
    barrier_state,    \* threading.Barrier._state: filling / draining / broken
    barrier_count,    \* threading.Barrier._count
    context_state,    \* CityContext._state: subsystem -> <<tick, metrics>>
    controls,         \* CityContext._controls
    latest_metrics,   \* CityKernel._latest_metrics: subsystem -> <<metrics>>
    metrics_queue,    \* CityKernel._metrics_queue
    kpc,              \* position of the thread inside CityKernel.run
    wpc,              \* position of each worker inside SubsystemThread.run
    continue_running, \* local of SubsystemThread._wait_for_tick
    shutdown_flag,    \* SubsystemThread._shutdown (Event)
    counter,          \* per worker: number of execute_tick calls made
    seen,             \* per worker: last get_metric result for each peer
    publishes,        \* per worker: its class's collect_metrics returns a snapshot
    pub_tick,         \* local `tick` of CityKernel.publish_metrics
    spc,              \* position of the thread inside CityKernel.shutdown
    sidx,             \* loop index of CityKernel.shutdown's for loops
    resets,           \* number of reset() calls made so far
    subsystems,       \* CityKernel._subsystems, in list order
    config_subsystems, \* config["subsystems"]: what the factory builds
    attached,         \* the workers whose _kernel is set (attach_kernel)
    barrier_id,       \* which Barrier object _tick_barrier is: the number built so far
    error,            \* the lifecycle call that raised last, or "none"
    cstate,           \* SimulationController.controls: the ControlState's attributes
    stop_event,       \* SimulationController._stop_event
    thread,           \* SimulationController._thread is not None
    stale_kpc,        \* position of a runner thread the controller dropped
    consumer,         \* position of the _consume_metrics thread
    history,          \* SimulationController._history
    cpc,              \* position of the caller inside stop() or reset()
    last_call,        \* history: the last call made by a client, with its outcome
    merge_log,        \* history: the last two update_controls calls
    released,         \* history: barrier trips of a worker since the last increment
    pausedIncs,       \* history: increments since the pause flag was last cleared
    calls,            \* history: the template methods each worker thread has called
    held,             \* the snapshots a client of the Context holds references to
    instances,        \* the list build_subsystems_from_config returned to a caller
    stale_workers,    \* the worker threads of the bootstrap before the last reset
    setters,          \* per client thread: its position inside a controller call on the controls
    timer,            \* the Timers trigger_emergency started that have not fired
    rounds            \* history: how often the kernel thread has called the barrier's wait()

vars == <<running, tick_event, tick_index, pause_event, barrier_parties,
          barrier_state, barrier_count, context_state, controls,
          latest_metrics, metrics_queue, kpc, wpc, continue_running,
          shutdown_flag, counter, seen, publishes, pub_tick, spc, sidx,
          resets, subsystems, config_subsystems, attached, barrier_id, error,
          cstate, stop_event, thread, stale_kpc, consumer, history, cpc,
          last_call, merge_log, released,
          pausedIncs, calls, held, instances,
          stale_workers, setters, timer, rounds>>

setterVars == <<setters, timer>>

kernelVars == <<running, tick_event, tick_index, pause_event>>
barrierVars == <<barrier_parties, barrier_state, barrier_count>>
metricVars == <<context_state, latest_metrics, metrics_queue>>
workerLocals == <<continue_running, counter, seen, pub_tick, publishes>>
shutdownVars == <<spc, sidx>>
historyVars == <<released, pausedIncs, calls>>
controllerVars == <<cstate, stop_event, thread, stale_kpc, consumer, history,
                    cpc, last_call, merge_log>>
lifecycleVars == <<subsystems, config_subsystems, attached, barrier_id, error>>

Peers(w) == Subsystems \ {w}

\* ------------------------------------------------------------ construction
FreshSeen == [w \in Subsystems |-> [r \in Peers(w) |-> DefaultMetric]]

\* ---------------------------------------------------------- Python values
\* A control value with its Python type: the float n.0, the int n, a bool,
\* None.
PyFloat(n) == <<"float", n>>

PyInt(n) == <<"int", n>>

PyBool(b) == <<"bool", IF b THEN 1 ELSE 0>>

PyNone == <<"NoneType", 0>>

\* isinstance(v, bool)
IsBool(v) == v[1] = "bool"

\* An empty dict.
EmptyDict == [k \in {} |-> PyNone]

\* ----------------------------------------------------------- ControlState
\* The fields of the ControlState dataclass.
Fields ==
    {"traffic_inflow", "traffic_signal_bias", "energy_base_load",
     "renewable_boost", "waste_request_rate", "waste_fleet_size",
     "emergency_override", "emergency_staff", "paused"}

\* ControlState(): the defaults of the dataclass.
DefaultControlState ==
    [traffic_inflow |-> PyFloat(1), traffic_signal_bias |-> PyFloat(1),
     energy_base_load |-> PyFloat(1), renewable_boost |-> PyFloat(0),
     waste_request_rate |-> PyFloat(1), waste_fleet_size |-> PyInt(6),
     emergency_override |-> PyBool(FALSE), emergency_staff |-> PyInt(8),
     paused |-> PyBool(FALSE)]

\* Names hasattr() finds on a ControlState that are no fields: its method and
\* an attribute every class has.
ClassAttributes == {"to_dict", "__doc__"}

\* hasattr(self.controls, key)
HasAttr(cs, key) == key \in DOMAIN cs \/ key \in ClassAttributes

\* setattr(self.controls, key, value): an instance attribute is set, field or not.
SetAttr(cs, key, value) ==
    [k \in DOMAIN cs \cup {key} |-> IF k = key THEN value ELSE cs[k]]

\* self.controls.to_dict can be called unless an instance attribute of that
\* name hides the method.
ToDictCallable(cs) == "to_dict" \notin DOMAIN cs

\* ControlState.to_dict(): the nine fields.
ToDict(cs) == [k \in Fields |-> cs[k]]

\* No client call made yet.
NoCall == [op |-> "none", key |-> "none", value |-> PyNone, result |-> "none"]

\* No update_controls call made yet.
NoMerges == [n |-> 0, base |-> EmptyDict, mid |-> EmptyDict,
             p1 |-> EmptyDict, p2 |-> EmptyDict]

\* The threads that call the controller's control methods: two clients (a
\* UI and an API handler, say) and the thread of the Timer that
\* trigger_emergency starts.
ControlThreads == {"ui", "api", "timer"}

\* A thread's position inside set_control, with the arguments of the call
\* and the dict `self.controls.to_dict()` returned to it.
SetterAt(pc, op, key, value, snapshot) ==
    [pc |-> pc, op |-> op, key |-> key, value |-> value, snapshot |-> snapshot]

\* A thread that is inside no such call.
NotCalling == SetterAt("idle", "none", "none", PyNone, EmptyDict)

\* A worker thread of an earlier bootstrap: its position, the value of
\* continue_running it holds and the number of ticks it has executed.
StaleThread(pc, continue, count) ==
    [pc |-> pc, continue |-> continue, counter |-> count]

\* No such thread.
NoThread == StaleThread("none", FALSE, 0)

\* CityKernel.__init__, SimulationController.__init__ and the workers'
\* constructors, apart from the history buffer.
ConstructedButHistory ==
    /\ running = FALSE
    /\ tick_event = FALSE
    /\ tick_index = 0
    /\ pause_event = TRUE
    /\ barrier_parties = 0
    /\ barrier_state = "filling"
    /\ barrier_count = 0
    /\ context_state = [s \in Subsystems |-> NoSnapshot]
    /\ controls = EmptyDict
    /\ latest_metrics = [s \in Subsystems |-> NoSnapshot]
    /\ metrics_queue = <<>>
    /\ kpc = "idle"
    /\ wpc = [w \in Subsystems |-> "unstarted"]
    /\ continue_running = [w \in Subsystems |-> FALSE]
    /\ shutdown_flag = [w \in Subsystems |-> FALSE]
    /\ counter = [w \in Subsystems |-> 0]
    /\ seen = FreshSeen
    /\ publishes \in [Subsystems -> BOOLEAN]
    /\ pub_tick = [w \in Subsystems |-> 0]
    /\ spc = "idle"
    /\ sidx = 0
    /\ resets = 0
    /\ subsystems = <<>>
    /\ attached = {}
    /\ barrier_id = 0
    /\ error = "none"
    /\ cstate = DefaultControlState
    /\ stop_event = FALSE
    /\ thread = FALSE
    /\ stale_kpc = "none"
    /\ consumer = "none"
    /\ cpc = "idle"
    /\ last_call = NoCall
    /\ merge_log = NoMerges
    /\ released = [w \in Subsystems |-> 0]
    /\ pausedIncs = 0
    /\ calls = [w \in Subsystems |-> <<>>]
    /\ held = {}
    /\ instances = <<>>
    /\ stale_workers = [w \in Subsystems |-> NoThread]
    /\ setters = [t \in ControlThreads |-> NotCalling]
    /\ timer = 0
    /\ rounds = 0

\* CityKernel.__init__, SimulationController.__init__ (`self._history = {}`)
\* and the workers' constructors.
Constructed ==
    /\ ConstructedButHistory
    /\ history = [s \in Subsystems |-> <<>>]

\* A kernel constructed with the two-subsystem configuration.
Init ==
    /\ Constructed
    /\ config_subsystems = SubsystemOrder

\* ------------------------------------------------------- threading.Barrier
\* Mutant of BarrierSize: the kernel thread is not counted among the parties.
BarrierSizeWithoutKernel(n) == n

\* bootstrap: threading.Barrier(len(self._subsystems) + 1)
BarrierSize(n) == n + 1

\* Barrier._enter: a caller blocks while the barrier drains.
BarrierCanEnter == barrier_state # "draining"

\* Barrier.wait: the caller that brings the count to `parties` trips the barrier.
BarrierTrips == barrier_count + 1 = barrier_parties

\* Barrier._wait: wait_for(lambda: self._state != 0).
BarrierWakes == barrier_state # "filling"

\* Mutant of StateAfterExit: the last one out leaves the barrier draining.
StateAfterExitStaysClosed(count, state) == state

\* Barrier._exit after `self._count -= 1`: the last one out reopens the barrier.
StateAfterExit(count, state) ==
    IF count = 0 /\ state = "draining" THEN "filling" ELSE state

\* The workers a trip releases: the ones waiting, and the caller when it is one.
Release(callers) ==
    [w \in Subsystems |->
        IF w \in callers \/ wpc[w] = "barrier_wait"
        THEN released[w] + 1 ELSE released[w]]

\* ------------------------------------------------------------ CityKernel
\* The workers of a list.
Members(list) == {list[i] : i \in 1..Len(list)}

\* Mutant of AfterFactory: bootstrap always adds the factory's workers.
AfterFactoryAlways(list, config) == list \o config

\* bootstrap: `if not self._subsystems: self._subsystems.extend(factory(...))`
\* where build_subsystems_from_config builds one worker per configured entry.
AfterFactory(list, config) == IF list = <<>> THEN config ELSE list

\* build_subsystems_from_config: KeyError for a type that SUBSYSTEM_REGISTRY
\* does not hold.
FactoryRaises(config) == \E i \in 1..Len(config) : config[i] \notin Subsystems

\* A configuration bootstrap cannot build workers from.
BadConfig(config) == config = <<>> \/ FactoryRaises(config)

\* Mutant of SubsystemsAfterRaise: the workers built before the unknown type
\* stay in the list.
SubsystemsAfterRaisePartial(list, config) ==
    list \o SelectSeq(config, LAMBDA c : c \in Subsystems)

\* `self._subsystems.extend(build_subsystems_from_config(...))` when the
\* factory raises or returns no worker: the list is not extended.
SubsystemsAfterRaise(list, config) == list

\* The exception of a bootstrap that fails.
BootstrapError(config) == IF FactoryRaises(config) THEN "factory" ELSE "bootstrap"

\* bootstrap(force=False) before the first run, with a list that is not empty
\* or a configuration the factory builds workers from: the barrier is built
\* and every worker is attached.
Bootstrap ==
    /\ barrier_parties = 0
    /\ kpc = "idle"
    /\ barrier_id < MaxBarriers
    /\ subsystems = <<>> => ~BadConfig(config_subsystems)
    /\ AfterFactory(subsystems, config_subsystems) # <<>>
    /\ subsystems' = AfterFactory(subsystems, config_subsystems)
    /\ barrier_parties' = BarrierSize(Len(subsystems'))
    /\ barrier_state' = "filling"
    /\ barrier_count' = 0
    /\ attached' = attached \cup Members(subsystems')
    /\ barrier_id' = barrier_id + 1
    /\ error' = "none"
    /\ UNCHANGED <<setterVars, rounds, held, instances, stale_workers, controllerVars, config_subsystems, kernelVars, metricVars, controls, kpc, wpc,
                   workerLocals, shutdown_flag, shutdownVars, resets, historyVars>>

\* bootstrap(force=False) with no registered worker and a configuration that
\* names none (RuntimeError) or names an unknown type (KeyError of the
\* factory): raised before the barrier is built.
BootstrapFails ==
    /\ barrier_parties = 0
    /\ kpc = "idle"
    /\ subsystems = <<>>
    /\ BadConfig(config_subsystems)
    /\ subsystems' = SubsystemsAfterRaise(subsystems, config_subsystems)
    /\ error' = BootstrapError(config_subsystems)
    /\ UNCHANGED <<setterVars, rounds, held, instances, stale_workers, controllerVars, config_subsystems, attached, barrier_id, kernelVars, barrierVars,
                   metricVars, controls, kpc, wpc, workerLocals, shutdown_flag,
                   shutdownVars, resets, historyVars>>

\* bootstrap(force=True) before a run: the list and the barrier are dropped
\* first; then the factory's workers are attached behind a new barrier, or
\* the call raises.
BootstrapForce ==
    /\ kpc = "idle"
    /\ \A w \in Subsystems : wpc[w] = "unstarted"
    /\ IF BadConfig(config_subsystems)
       THEN /\ subsystems' = SubsystemsAfterRaise(<<>>, config_subsystems)
            /\ barrier_parties' = 0
            /\ attached' = {}
            /\ error' = BootstrapError(config_subsystems)
            /\ UNCHANGED barrier_id
       ELSE /\ barrier_id < MaxBarriers
            /\ subsystems' = config_subsystems
            /\ barrier_parties' = BarrierSize(Len(config_subsystems))
            /\ attached' = Members(config_subsystems)
            /\ error' = "none"
            /\ barrier_id' = barrier_id + 1
    /\ barrier_state' = "filling"
    /\ barrier_count' = 0
    /\ UNCHANGED <<setterVars, rounds, held, instances, stale_workers, controllerVars, config_subsystems, kernelVars, metricVars, controls, kpc, wpc,
                   workerLocals, shutdown_flag, shutdownVars, resets, historyVars>>

\* bootstrap(force=False) on a kernel that is bootstrapped already: the list
\* is kept and the factory is not called, but `self._tick_barrier =
\* threading.Barrier(...)` runs again.  Modelled for a barrier that is not
\* releasing or broken: the parties waiting in the discarded Barrier object
\* stay blocked in it ("orphaned"), later arrivals use the new one.
Rebootstrap ==
    /\ barrier_parties # 0
    /\ barrier_state = "filling"
    /\ barrier_id < MaxBarriers
    /\ barrier_id' = barrier_id + 1
    /\ barrier_parties' = BarrierSize(Len(subsystems))
    /\ barrier_count' = 0
    /\ kpc' = IF kpc = "barrier_wait" THEN "orphaned" ELSE kpc
    /\ wpc' = [w \in Subsystems |->
                 IF wpc[w] = "barrier_wait" THEN "orphaned" ELSE wpc[w]]
    /\ attached' = attached \cup Members(subsystems)
    /\ error' = "none"
    /\ UNCHANGED <<setterVars, rounds, held, instances, stale_workers, controllerVars, subsystems, config_subsystems, kernelVars, barrier_state,
                   metricVars, controls, workerLocals, shutdown_flag,
                   shutdownVars, resets, historyVars>>

\* The worker lists a caller may pass to register_subsystems: workers that
\* are not in the kernel's list yet.
RegisterInputs ==
    {ws \in {<<"A">>, <<"B">>, <<"A", "B">>, <<"B", "A">>} :
        Members(ws) \cap Members(subsystems) = {}}

\* register_subsystems(ws): RuntimeError once the barrier exists, otherwise
\* self._subsystems.extend(ws).
RegisterSubsystems(ws) ==
    /\ kpc = "idle"
    /\ IF barrier_parties # 0
       THEN error' = "register" /\ subsystems' = subsystems
       ELSE error' = "none" /\ subsystems' = subsystems \o ws
    /\ UNCHANGED <<setterVars, rounds, held, instances, stale_workers, controllerVars, config_subsystems, attached, barrier_id, kernelVars, barrierVars,
                   metricVars, controls, kpc, wpc, workerLocals, shutdown_flag,
                   shutdownVars, resets, historyVars>>

\* Mutant of Bootstrapped: run() does not test the barrier.
BootstrappedUnchecked == TRUE

\* run(): `if self._tick_barrier is None: raise RuntimeError`
Bootstrapped == barrier_parties # 0

\* run() on a kernel without a barrier raises and does nothing else.
RunRejected ==
    /\ kpc = "idle"
    /\ ~Bootstrapped
    /\ error' = "run"
    /\ UNCHANGED <<setterVars, rounds, held, instances, stale_workers, controllerVars, subsystems, config_subsystems, attached, barrier_id, kernelVars,
                   barrierVars, metricVars, controls, kpc, wpc, workerLocals,
                   shutdown_flag, shutdownVars, resets, historyVars>>

\* run(): the guard, _running.set() and the start of every subsystem thread.
RunStart ==
    /\ kpc = "idle"
    /\ Bootstrapped
    /\ \A w \in Members(subsystems) : wpc[w] = "unstarted"
    /\ running' = TRUE
    /\ wpc' = [w \in Subsystems |->
                 IF w \in Members(subsystems) THEN "loop" ELSE wpc[w]]
    /\ kpc' = "head"
    /\ error' = "none"
    /\ UNCHANGED <<setterVars, rounds, held, instances, stale_workers, controllerVars, subsystems, config_subsystems, attached, barrier_id, tick_event,
                   tick_index, pause_event, barrierVars, metricVars, controls,
                   workerLocals, shutdown_flag, shutdownVars, resets, historyVars>>

\* _should_continue with max_ticks = MaxTicksBound.
ShouldContinue == running /\ tick_index < MaxTicksBound

\* while self._should_continue():
KLoopHead ==
    /\ kpc = "head"
    /\ kpc' = IF ShouldContinue THEN "open" ELSE "exit"
    /\ UNCHANGED <<setterVars, rounds, held, instances, stale_workers, controllerVars, lifecycleVars, kernelVars, barrierVars, metricVars, controls, wpc,
                   workerLocals, shutdown_flag, shutdownVars, resets, historyVars>>

\* self._tick_event.set()
KOpenTick ==
    /\ kpc = "open"
    /\ tick_event' = TRUE
    /\ kpc' = "barrier_enter"
    /\ UNCHANGED <<setterVars, rounds, held, instances, stale_workers, controllerVars, lifecycleVars, running, tick_index, pause_event, barrierVars, metricVars,
                   controls, wpc, workerLocals, shutdown_flag, shutdownVars,
                   resets, historyVars>>

\* self._tick_barrier.wait(): arrival of the kernel thread.
KBarrierEnter ==
    /\ kpc = "barrier_enter"
    /\ BarrierCanEnter
    /\ rounds' = rounds + 1
    /\ \/ /\ barrier_state = "broken"
          /\ kpc' = "clear_broken"
          /\ UNCHANGED <<barrier_state, barrier_count, released>>
       \/ /\ barrier_state = "filling"
          /\ BarrierTrips
          /\ barrier_count' = barrier_count
          /\ barrier_state' = StateAfterExit(barrier_count, "draining")
          /\ released' = Release({})
          /\ kpc' = "clear_ok"
       \/ /\ barrier_state = "filling"
          /\ ~BarrierTrips
          /\ barrier_count' = barrier_count + 1
          /\ kpc' = "barrier_wait"
          /\ UNCHANGED <<barrier_state, released>>
    /\ UNCHANGED <<setterVars, held, instances, stale_workers, controllerVars, lifecycleVars, kernelVars, barrier_parties, metricVars, controls, wpc,
                   workerLocals, shutdown_flag, shutdownVars, resets, pausedIncs, calls>>

\* self._tick_barrier.wait(): the kernel thread wakes in Barrier._wait.
KBarrierWake ==
    /\ kpc = "barrier_wait"
    /\ BarrierWakes
    /\ barrier_count' = barrier_count - 1
    /\ barrier_state' = StateAfterExit(barrier_count - 1, barrier_state)
    /\ kpc' = IF barrier_state = "broken" THEN "clear_broken" ELSE "clear_ok"
    /\ UNCHANGED <<setterVars, rounds, held, instances, stale_workers, controllerVars, lifecycleVars, kernelVars, barrier_parties, metricVars, controls, wpc,
                   workerLocals, shutdown_flag, shutdownVars, resets, historyVars>>

\* finally: self._tick_event.clear()  (after a normal return or a break)
KClearTick ==
    /\ kpc \in {"clear_ok", "clear_broken"}
    /\ tick_event' = FALSE
    /\ kpc' = IF kpc = "clear_ok" THEN "inc" ELSE "exit"
    /\ UNCHANGED <<setterVars, rounds, held, instances, stale_workers, controllerVars, lifecycleVars, running, tick_index, pause_event, barrierVars, metricVars,
                   controls, wpc, workerLocals, shutdown_flag, shutdownVars,
                   resets, historyVars>>

\* Mutant of NextTick: the counter skips a value.
NextTickSkips(t) == t + 2

\* self._tick_index += 1
NextTick(t) == t + 1

KIncrement ==
    /\ kpc = "inc"
    /\ tick_index' = NextTick(tick_index)
    /\ kpc' = "pause"
    /\ released' = [w \in Subsystems |-> 0]
    /\ pausedIncs' = IF pause_event THEN 0 ELSE pausedIncs + 1
    /\ UNCHANGED <<setterVars, rounds, held, instances, stale_workers, controllerVars, lifecycleVars, running, tick_event, pause_event, barrierVars, metricVars,
                   controls, wpc, workerLocals, shutdown_flag, shutdownVars, resets,
                   calls>>

\* Mutant of PauseGate: the loop does not wait for the pause flag.
PauseGateOpen(event) == TRUE

\* self._pause_event.wait() returns when the event is set; the pacing sleep
\* that follows touches no shared state and ends at the loop head.
PauseGate(event) == event

KPauseWait ==
    /\ kpc = "pause"
    /\ PauseGate(pause_event)
    /\ kpc' = "head"
    /\ UNCHANGED <<setterVars, rounds, held, instances, stale_workers, controllerVars, lifecycleVars, kernelVars, barrierVars, metricVars, controls, wpc,
                   workerLocals, shutdown_flag, shutdownVars, resets, historyVars>>

\* finally: self._running.clear(); run() returns.
KExit ==
    /\ kpc = "exit"
    /\ running' = FALSE
    /\ kpc' = "returned"
    /\ UNCHANGED <<setterVars, rounds, held, instances, stale_workers, controllerVars, lifecycleVars, tick_event, tick_index, pause_event, barrierVars, metricVars,
                   controls, wpc, workerLocals, shutdown_flag, shutdownVars,
                   resets, historyVars>>

\* -------------------------------------------------------- SubsystemThread
\* Mutant of CallsAtLoopTest: on_start is called at every loop test.
CallsAtLoopTestEveryTime(made) == Append(made, "on_start")

\* run(): `self.on_start()` is called once, on the way to the first loop test.
CallsAtLoopTest(made) == IF made = <<>> THEN <<"on_start">> ELSE made

\* run(): on_start() when the thread begins, then
\* `while not self._shutdown.is_set() and ...`: the first operand.
WLoop(w) ==
    /\ wpc[w] = "loop"
    /\ wpc' = [wpc EXCEPT ![w] = IF shutdown_flag[w] THEN "on_stop" ELSE "wait_event"]
    /\ calls' = [calls EXCEPT ![w] = CallsAtLoopTest(@)]
    /\ UNCHANGED <<setterVars, rounds, held, instances, stale_workers, controllerVars, lifecycleVars, kernelVars, barrierVars, metricVars, controls, kpc,
                   workerLocals, shutdown_flag, shutdownVars, resets, released,
                   pausedIncs>>

\* CityKernel.wait_for_tick: self._tick_event.wait()
WWaitTickEvent(w) ==
    /\ wpc[w] = "wait_event"
    /\ tick_event
    /\ wpc' = [wpc EXCEPT ![w] = "read_running"]
    /\ UNCHANGED <<setterVars, rounds, held, instances, stale_workers, controllerVars, lifecycleVars, kernelVars, barrierVars, metricVars, controls, kpc,
                   workerLocals, shutdown_flag, shutdownVars, resets, historyVars>>

\* CityKernel.wait_for_tick: return self._running.is_set()
WReadRunning(w) ==
    /\ wpc[w] = "read_running"
    /\ continue_running' = [continue_running EXCEPT ![w] = running]
    /\ wpc' = [wpc EXCEPT ![w] = "barrier_enter"]
    /\ UNCHANGED <<setterVars, rounds, held, instances, stale_workers, controllerVars, lifecycleVars, kernelVars, barrierVars, metricVars, controls, kpc, counter,
                   seen, pub_tick, publishes, shutdown_flag, shutdownVars, resets,
                   historyVars>>

\* _wait_for_tick returns continue_running: the loop body runs, or the loop ends.
AfterBarrier(w) == IF continue_running[w] THEN "hooks" ELSE "on_stop"

\* signal_tick_complete: self._tick_barrier.wait(), BrokenBarrierError caught.
WBarrierEnter(w) ==
    /\ wpc[w] = "barrier_enter"
    /\ BarrierCanEnter
    /\ \/ /\ barrier_state = "broken"
          /\ wpc' = [wpc EXCEPT ![w] = AfterBarrier(w)]
          /\ continue_running' = [continue_running EXCEPT ![w] = FALSE]
          /\ UNCHANGED <<barrier_state, barrier_count, released>>
       \/ /\ barrier_state = "filling"
          /\ BarrierTrips
          /\ barrier_count' = barrier_count
          /\ barrier_state' = StateAfterExit(barrier_count, "draining")
          /\ released' = Release({w})
          /\ wpc' = [wpc EXCEPT ![w] = AfterBarrier(w)]
          /\ continue_running' = [continue_running EXCEPT ![w] = FALSE]
       \/ /\ barrier_state = "filling"
          /\ ~BarrierTrips
          /\ barrier_count' = barrier_count + 1
          /\ wpc' = [wpc EXCEPT ![w] = "barrier_wait"]
          /\ UNCHANGED <<barrier_state, released, continue_running>>
    /\ UNCHANGED <<setterVars, rounds, held, instances, stale_workers, controllerVars, lifecycleVars, kernelVars, barrier_parties, metricVars, controls, kpc,
                   counter, seen, pub_tick, publishes, shutdown_flag, shutdownVars, resets,
                   pausedIncs, calls>>

\* signal_tick_complete: the worker wakes in Barrier._wait (released or broken).
WBarrierWake(w) ==
    /\ wpc[w] = "barrier_wait"
    /\ BarrierWakes
    /\ barrier_count' = barrier_count - 1
    /\ barrier_state' = StateAfterExit(barrier_count - 1, barrier_state)
    /\ wpc' = [wpc EXCEPT ![w] = AfterBarrier(w)]
    /\ continue_running' = [continue_running EXCEPT ![w] = FALSE]
    /\ UNCHANGED <<setterVars, rounds, held, instances, stale_workers, controllerVars, lifecycleVars, kernelVars, barrier_parties, metricVars, controls, kpc,
                   counter, seen, pub_tick, publishes, shutdown_flag, shutdownVars, resets,
                   historyVars>>

\* SubsystemThread.get_metric(subsystem, key, default) over Context.get_latest.
GetMetric(r) ==
    IF context_state[r] = NoSnapshot THEN DefaultMetric ELSE context_state[r][2]

\* The loop body up to collect_metrics, in the order run() calls it.
TickHooks == <<"before_tick", "execute_tick", "after_tick", "collect_metrics">>

\* before_tick, execute_tick (which reads its peers), after_tick and
\* collect_metrics, which returns a snapshot (the concrete subsystems) or None
\* (the base class).  The snapshot a worker publishes is the index of the tick
\* it has just executed.
WHooks(w) ==
    /\ wpc[w] = "hooks"
    /\ seen' = [seen EXCEPT ![w] = [r \in Peers(w) |-> GetMetric(r)]]
    /\ counter' = [counter EXCEPT ![w] = counter[w] + 1]
    /\ wpc' = [wpc EXCEPT ![w] = IF publishes[w] THEN "pub_tick" ELSE "loop"]
    /\ calls' = [calls EXCEPT ![w] = @ \o TickHooks]
    /\ UNCHANGED <<setterVars, rounds, held, instances, stale_workers, controllerVars, lifecycleVars, kernelVars, barrierVars, metricVars, controls, kpc,
                   continue_running, pub_tick, publishes, shutdown_flag,
                   shutdownVars, resets, released, pausedIncs>>

\* Mutant of CurrentTick: the tick is reported modulo the horizon.
CurrentTickWrapped == tick_index % MaxTicksBound

\* CityKernel.current_tick()
CurrentTick == tick_index

\* publish_metrics: tick = self.current_tick()
WPublishReadTick(w) ==
    /\ wpc[w] = "pub_tick"
    /\ pub_tick' = [pub_tick EXCEPT ![w] = CurrentTick]
    /\ wpc' = [wpc EXCEPT ![w] = "pub_record"]
    /\ calls' = [calls EXCEPT ![w] = Append(@, "publish_metrics")]
    /\ UNCHANGED <<setterVars, rounds, held, instances, stale_workers, controllerVars, lifecycleVars, kernelVars, barrierVars, metricVars, controls, kpc,
                   continue_running, counter, seen, publishes, shutdown_flag,
                   shutdownVars, resets, released, pausedIncs>>

\* The snapshot of the tick a worker has just executed.
Snapshot(w) == counter[w] - 1

\* CityContext.update(subsystem, tick, metrics)
ContextUpdate(state, s, tick, metrics) == [state EXCEPT ![s] = <<tick, metrics>>]

MetricsEvent(s, tick, metrics) ==
    [type |-> "metrics", tick |-> tick, subsystem |-> s, metrics |-> metrics]

ShutdownEvent == [type |-> "shutdown"]

\* Mutant of PutNowait: a full stream drops its oldest event for the new one.
PutNowaitEvictsOldest(queue, event) ==
    IF Len(queue) < MetricsBuffer THEN Append(queue, event)
    ELSE Append(Tail(queue), event)

\* Mutant of PutNowait: the stream grows without a bound.
PutNowaitUnbounded(queue, event) == Append(queue, event)

\* Queue.put_nowait with the Full exception swallowed: put or drop.
PutNowait(queue, event) ==
    IF Len(queue) < MetricsBuffer THEN Append(queue, event) ELSE queue

\* publish_metrics after the tick is read: the Context update, the
\* latest-metrics cache and the event's put_nowait.
WPublishRecord(w) ==
    /\ wpc[w] = "pub_record"
    /\ context_state' = ContextUpdate(context_state, w, pub_tick[w], Snapshot(w))
    /\ latest_metrics' = [latest_metrics EXCEPT ![w] = <<Snapshot(w)>>]
    /\ metrics_queue' = PutNowait(metrics_queue, MetricsEvent(w, pub_tick[w], Snapshot(w)))
    /\ pub_tick' = [pub_tick EXCEPT ![w] = 0]
    /\ wpc' = [wpc EXCEPT ![w] = "loop"]
    /\ UNCHANGED <<setterVars, rounds, held, instances, stale_workers, controllerVars, lifecycleVars, kernelVars, barrierVars, controls, kpc, continue_running,
                   counter, seen, publishes, shutdown_flag, shutdownVars, resets,
                   historyVars>>

\* A hook of the loop body raises (any of the four): the exception leaves the
\* loop for the `except Exception: ... raise` clause, with on_stop still to
\* run.
WHooksRaise(w) ==
    /\ wpc[w] = "hooks"
    /\ wpc' = [wpc EXCEPT ![w] = "raised"]
    /\ \E n \in 1..Len(TickHooks) :
          calls' = [calls EXCEPT ![w] = @ \o SubSeq(TickHooks, 1, n)]
    /\ UNCHANGED <<setterVars, rounds, held, instances, stale_workers, controllerVars, lifecycleVars, kernelVars, barrierVars, metricVars, controls, kpc,
                   workerLocals, shutdown_flag, shutdownVars, resets, released,
                   pausedIncs>>

\* finally: self.on_stop(); the thread terminates (normally, or with the
\* exception a hook raised).
WOnStop(w) ==
    /\ wpc[w] \in {"on_stop", "raised"}
    /\ wpc' = [wpc EXCEPT ![w] = "done"]
    /\ calls' = [calls EXCEPT ![w] = Append(@, "on_stop")]
    /\ UNCHANGED <<setterVars, rounds, held, instances, stale_workers, controllerVars, lifecycleVars, kernelVars, barrierVars, metricVars, controls, kpc,
                   workerLocals, shutdown_flag, shutdownVars, resets, released,
                   pausedIncs>>

Worker(w) ==
    \/ WLoop(w)
    \/ WWaitTickEvent(w)
    \/ WReadRunning(w)
    \/ WBarrierEnter(w)
    \/ WBarrierWake(w)
    \/ WHooks(w)
    \/ WPublishReadTick(w)
    \/ WPublishRecord(w)
    \/ WOnStop(w)

\* --------------------------------------------------- CityKernel.shutdown
\* shutdown() is called once run() has returned (main._run_headless).
\* self._running.clear()
SClearRunning ==
    /\ spc = "idle"
    /\ kpc = "returned"
    /\ running' = FALSE
    /\ spc' = "abort"
    /\ UNCHANGED <<setterVars, rounds, held, instances, stale_workers, controllerVars, lifecycleVars, tick_event, tick_index, pause_event, barrierVars, metricVars,
                   controls, kpc, wpc, workerLocals, shutdown_flag, sidx, resets,
                   historyVars>>

\* shutdown() is called from another thread while run() is in progress
\* (main._run_with_dashboard, SimulationController.stop).
\* self._running.clear()
SClearRunningDuringRun ==
    /\ spc = "idle"
    /\ kpc \notin {"idle", "returned"}
    /\ running' = FALSE
    /\ spc' = "abort"
    /\ UNCHANGED <<setterVars, rounds, held, instances, stale_workers, controllerVars, lifecycleVars, tick_event, tick_index, pause_event, barrierVars,
                   metricVars, controls, kpc, wpc, workerLocals, shutdown_flag,
                   sidx, resets, historyVars>>

\* shutdown() is called again after an earlier call has completed
\* (SimulationController.stop called twice, or stop after the run's shutdown).
\* self._running.clear()
SClearRunningAgain ==
    /\ spc = "done"
    /\ running' = FALSE
    /\ spc' = "abort"
    /\ UNCHANGED <<setterVars, rounds, held, instances, stale_workers, controllerVars, lifecycleVars, tick_event, tick_index, pause_event, barrierVars,
                   metricVars, controls, kpc, wpc, workerLocals, shutdown_flag,
                   sidx, resets, historyVars>>

\* if self._tick_barrier is not None: self._tick_barrier.abort()
SAbortBarrier ==
    /\ spc = "abort"
    /\ barrier_state' = IF barrier_parties # 0 THEN "broken" ELSE barrier_state
    /\ spc' = "set_event"
    /\ UNCHANGED <<setterVars, rounds, held, instances, stale_workers, controllerVars, lifecycleVars, kernelVars, barrier_parties, barrier_count, metricVars,
                   controls, kpc, wpc, workerLocals, shutdown_flag, sidx, resets,
                   historyVars>>

\* self._tick_event.set()
SSetTickEvent ==
    /\ spc = "set_event"
    /\ tick_event' = TRUE
    /\ spc' = IF subsystems = <<>> THEN "put" ELSE "flags"
    /\ sidx' = IF subsystems = <<>> THEN 0 ELSE 1
    /\ UNCHANGED <<setterVars, rounds, held, instances, stale_workers, controllerVars, lifecycleVars, running, tick_index, pause_event, barrierVars, metricVars,
                   controls, kpc, wpc, workerLocals, shutdown_flag, resets,
                   historyVars>>

\* for subsystem in self._subsystems: subsystem.shutdown()
SFlagWorker ==
    /\ spc = "flags"
    /\ shutdown_flag' = [shutdown_flag EXCEPT ![subsystems[sidx]] = TRUE]
    /\ IF sidx < Len(subsystems)
       THEN sidx' = sidx + 1 /\ spc' = spc
       ELSE sidx' = 1 /\ spc' = "join"
    /\ UNCHANGED <<setterVars, rounds, held, instances, stale_workers, controllerVars, lifecycleVars, kernelVars, barrierVars, metricVars, controls, kpc, wpc,
                   workerLocals, resets, historyVars>>

\* A worker that waits for something no thread has provided yet.
Blocked(w) ==
    \/ wpc[w] = "wait_event" /\ ~tick_event
    \/ wpc[w] = "barrier_enter" /\ ~BarrierCanEnter
    \/ wpc[w] = "barrier_wait" /\ ~BarrierWakes
    \/ wpc[w] = "orphaned"

\* subsystem.join(timeout=2) returns: the thread was never started (ident is
\* None), it has terminated, or the timeout expires on a worker that is blocked.
JoinReturns(w) == wpc[w] \in {"unstarted", "done"} \/ Blocked(w)

\* for subsystem in self._subsystems: ... subsystem.join(timeout=2)
SJoinWorker ==
    /\ spc = "join"
    /\ JoinReturns(subsystems[sidx])
    /\ IF sidx < Len(subsystems)
       THEN sidx' = sidx + 1 /\ spc' = spc
       ELSE sidx' = 0 /\ spc' = "put"
    /\ UNCHANGED <<setterVars, rounds, held, instances, stale_workers, controllerVars, lifecycleVars, kernelVars, barrierVars, metricVars, controls, kpc, wpc,
                   workerLocals, shutdown_flag, resets, historyVars>>

\* self._metrics_queue.put_nowait({"type": "shutdown"}), exceptions swallowed.
SPutShutdownEvent ==
    /\ spc = "put"
    /\ metrics_queue' = PutNowait(metrics_queue, ShutdownEvent)
    /\ spc' = "done"
    /\ UNCHANGED <<setterVars, rounds, held, instances, stale_workers, controllerVars, lifecycleVars, kernelVars, barrierVars, context_state, latest_metrics,
                   controls, kpc, wpc, workerLocals, shutdown_flag, sidx, resets,
                   historyVars>>

\* --------------------------------------------- CityKernel.metrics_stream
\* metrics_stream(timeout): Queue.get takes the oldest event (on an empty
\* stream it returns None after the timeout and changes nothing).
MetricsStream ==
    /\ metrics_queue # <<>>
    /\ metrics_queue' = Tail(metrics_queue)
    /\ UNCHANGED <<setterVars, rounds, held, instances, stale_workers, controllerVars, lifecycleVars, kernelVars, barrierVars, context_state,
                   latest_metrics, controls, kpc, wpc, workerLocals,
                   shutdown_flag, shutdownVars, resets, historyVars>>

\* ------------------------------------------ CityKernel.set_control_state
\* Mutant of UpdateControls: the partial replaces the mapping.
UpdateControlsReplaces(old, partial) == partial

\* CityContext.update_controls: dict.update
UpdateControls(old, partial) ==
    [k \in DOMAIN old \cup DOMAIN partial |->
        IF k \in DOMAIN partial THEN partial[k] ELSE old[k]]

\* set_control_state({"paused": p}) for a boolean p.
SetControlState(p) ==
    /\ pause_event' = ~p
    /\ controls' = UpdateControls(controls, [k \in {"paused"} |-> PyBool(p)])
    /\ pausedIncs' = IF p /\ ~pause_event THEN pausedIncs ELSE 0
    /\ UNCHANGED <<setterVars, rounds, held, instances, stale_workers, controllerVars, lifecycleVars, running, tick_event, tick_index, barrierVars, metricVars,
                   kpc, wpc, workerLocals, shutdown_flag, shutdownVars, resets,
                   released, calls>>

\* Mutant of PauseEventAfter: any "paused" value is taken for its truth value.
PauseEventAfterTruthy(event, partial) ==
    IF "paused" \in DOMAIN partial THEN partial["paused"][2] = 0 ELSE event

\* `paused = controls.get("paused")`, `if isinstance(paused, bool):` clear the
\* pause event for True, set it for False; otherwise it is left alone.
PauseEventAfter(event, partial) ==
    IF "paused" \in DOMAIN partial /\ IsBool(partial["paused"])
    THEN partial["paused"] = PyBool(FALSE)
    ELSE event

\* What set_control_state(partial) does to the kernel and its Context.
ControlStateApplied(partial) ==
    /\ pause_event' = PauseEventAfter(pause_event, partial)
    /\ controls' = UpdateControls(controls, partial)
    /\ pausedIncs' = IF ~pause_event /\ ~pause_event' THEN pausedIncs ELSE 0
    /\ merge_log' = [n |-> IF merge_log.n < 2 THEN merge_log.n + 1 ELSE 2,
                     base |-> merge_log.mid, mid |-> controls,
                     p1 |-> merge_log.p2, p2 |-> partial]

\* The dicts a client passes to set_control_state: empty, a boolean or a
\* non-boolean "paused", another control, an unknown key.
PartialInputs ==
    {EmptyDict,
     [paused |-> PyBool(TRUE)],
     [paused |-> PyBool(FALSE)],
     [paused |-> PyInt(1)],
     [traffic_inflow |-> PyFloat(2)],
     [paused |-> PyBool(TRUE), tempo |-> PyInt(3)]}

\* set_control_state(partial) called by a client with any dict.
SetControlStateCall(partial) ==
    /\ cpc = "idle"
    /\ ControlStateApplied(partial)
    /\ last_call' = [op |-> "set_control_state", key |-> "none",
                     value |-> PyNone, result |-> "ok"]
    /\ UNCHANGED <<setterVars, rounds, held, instances, stale_workers, cstate, stop_event, thread, stale_kpc, consumer, history, cpc,
                   lifecycleVars, running, tick_event, tick_index, barrierVars,
                   metricVars, kpc, wpc, workerLocals, shutdown_flag,
                   shutdownVars, resets, released, calls>>

\* ---------------------------------- SimulationController.set_control
\* The (key, value) pairs clients pass to set_control: fields with values of
\* their type, a field with a value of another type, and keys that are no
\* fields.
ControlInputs ==
    {<<"paused", PyBool(TRUE)>>, <<"paused", PyBool(FALSE)>>,
     <<"traffic_inflow", PyFloat(2)>>, <<"traffic_inflow", PyFloat(1)>>,
     <<"waste_fleet_size", PyInt(7)>>, <<"waste_fleet_size", PyFloat(2)>>,
     <<"does_not_exist", PyInt(1)>>, <<"to_dict", PyInt(1)>>,
     <<"__doc__", PyInt(1)>>}

\* The outcome of a set_control call: "AttributeError" (raised by the
\* hasattr test), "TypeError" (raised by the to_dict() call) or "ok" (the
\* listeners were called).
SetControlCall(key, value, result) ==
    [op |-> "set_control", key |-> key, value |-> value, result |-> result]

\* set_control(key, value), with no other controller call in progress.
SetControl(key, value) ==
    /\ cpc = "idle"
    /\ IF ~HasAttr(cstate, key)
       THEN /\ last_call' = SetControlCall(key, value, "AttributeError")
            /\ UNCHANGED <<cstate, pause_event, controls, pausedIncs, merge_log>>
       ELSE /\ cstate' = SetAttr(cstate, key, value)
            /\ IF ToDictCallable(cstate')
               THEN /\ ControlStateApplied(ToDict(cstate'))
                    /\ last_call' = SetControlCall(key, value, "ok")
               ELSE /\ last_call' = SetControlCall(key, value, "TypeError")
                    /\ UNCHANGED <<pause_event, controls, pausedIncs,
                                   merge_log>>
    /\ UNCHANGED <<setterVars, rounds, held, instances, stale_workers, stop_event, thread, stale_kpc, consumer, history, cpc,
                   lifecycleVars, running, tick_event, tick_index, barrierVars,
                   metricVars, kpc, wpc, workerLocals, shutdown_flag,
                   shutdownVars, resets, released, calls>>

\* ------------- pause / resume / toggle_pause / trigger_emergency, threaded
\* set_control takes no lock: a call is a sequence of steps of its thread,
\* and the steps of several threads interleave.
ControlOps == {"pause", "resume", "toggle_pause", "trigger_emergency"}

\* The key a control method passes to set_control.
ControlKey(op) ==
    IF op \in {"trigger_emergency", "_clear"} THEN "emergency_override"
    ELSE "paused"

\* The value it passes: True, False, `not self.controls.paused`, True, and
\* False for the Timer's _clear.
ControlValue(op, cs) ==
    CASE op = "pause" -> PyBool(TRUE)
      [] op = "resume" -> PyBool(FALSE)
      [] op = "toggle_pause" -> PyBool(cs["paused"][2] = 0)
      [] op = "trigger_emergency" -> PyBool(TRUE)
      [] op = "_clear" -> PyBool(FALSE)

\* What no step of set_control touches.
setterFrame ==
    <<rounds, held, instances, stale_workers, stop_event, thread, stale_kpc, consumer,
      history, cpc, lifecycleVars, running, tick_event, tick_index,
      barrierVars, metricVars, kpc, wpc, workerLocals, shutdown_flag,
      shutdownVars, resets, released, calls>>

\* A client thread calls pause(), resume(), toggle_pause() or
\* trigger_emergency(): the argument of set_control is evaluated
\* (toggle_pause reads self.controls.paused here) and `hasattr` holds.
\* At most MaxTimers Timers are pending at a time.
SetterBegins(t, op) ==
    /\ t # "timer"
    /\ setters[t].pc = "idle"
    /\ op = "trigger_emergency" => timer < MaxTimers
    /\ setters' = [setters EXCEPT ![t] =
          SetterAt("setattr", op, ControlKey(op), ControlValue(op, cstate),
                   EmptyDict)]
    /\ UNCHANGED <<timer, cstate, pause_event, controls, pausedIncs,
                   merge_log, last_call, setterFrame>>

\* The Timer of trigger_emergency fires: its thread calls _clear, which
\* calls set_control("emergency_override", False).
TimerFires ==
    /\ timer > 0
    /\ setters["timer"].pc = "idle"
    /\ timer' = timer - 1
    /\ setters' = [setters EXCEPT !["timer"] =
          SetterAt("setattr", "_clear", ControlKey("_clear"),
                   ControlValue("_clear", cstate), EmptyDict)]
    /\ UNCHANGED <<cstate, pause_event, controls, pausedIncs, merge_log,
                   last_call, setterFrame>>

\* `setattr(self.controls, key, value)`
SetterSetAttr(t) ==
    /\ setters[t].pc = "setattr"
    /\ cstate' = SetAttr(cstate, setters[t].key, setters[t].value)
    /\ setters' = [setters EXCEPT ![t].pc = "to_dict"]
    /\ UNCHANGED <<timer, pause_event, controls, pausedIncs, merge_log,
                   last_call, setterFrame>>

\* `self.controls.to_dict()`: the argument of set_control_state.  (to_dict
\* reads the fields one after another; it is taken in one step, which adds
\* no interleaving.)
SetterToDict(t) ==
    /\ setters[t].pc = "to_dict"
    /\ setters' = [setters EXCEPT ![t].pc = "pause_event",
                                  ![t].snapshot = ToDict(cstate)]
    /\ UNCHANGED <<timer, cstate, pause_event, controls, pausedIncs,
                   merge_log, last_call, setterFrame>>

\* set_control_state, first half: the pause event is cleared or set from
\* the dict's "paused".
SetterPauseEvent(t) ==
    /\ setters[t].pc = "pause_event"
    /\ pause_event' = PauseEventAfter(pause_event, setters[t].snapshot)
    /\ pausedIncs' = IF ~pause_event /\ ~pause_event' THEN pausedIncs ELSE 0
    /\ setters' = [setters EXCEPT ![t].pc = "update_controls"]
    /\ UNCHANGED <<timer, cstate, controls, merge_log, last_call,
                   setterFrame>>

\* set_control_state, second half: `self.context.update_controls(controls)`,
\* under the Context's lock.
SetterUpdateControls(t) ==
    /\ setters[t].pc = "update_controls"
    /\ controls' = UpdateControls(controls, setters[t].snapshot)
    /\ merge_log' = [n |-> IF merge_log.n < 2 THEN merge_log.n + 1 ELSE 2,
                     base |-> merge_log.mid, mid |-> controls,
                     p1 |-> merge_log.p2, p2 |-> setters[t].snapshot]
    /\ setters' = [setters EXCEPT ![t].pc = "listeners"]
    /\ UNCHANGED <<timer, cstate, pause_event, pausedIncs, last_call,
                   setterFrame>>

\* The listeners are called (none is registered) and set_control returns;
\* trigger_emergency then starts its Timer.
SetterReturns(t) ==
    /\ setters[t].pc = "listeners"
    /\ timer' = IF setters[t].op = "trigger_emergency" THEN timer + 1
                ELSE timer
    /\ last_call' = SetControlCall(setters[t].key, setters[t].value, "ok")
    /\ setters' = [setters EXCEPT ![t] = NotCalling]
    /\ UNCHANGED <<cstate, pause_event, controls, pausedIncs, merge_log,
                   setterFrame>>

\* CityContext.get_control(key): self._controls.get(key, None)
GetControl(c, key) == IF key \in DOMAIN c THEN c[key] ELSE PyNone

\* ------------------------------------------------------ CityKernel.reset
\* reset() called between runs: the loop is not running and the workers of
\* the previous run have terminated (SimulationController.reset shuts the
\* kernel down first).  bootstrap(force=True) builds fresh workers and a
\* fresh barrier, or raises and leaves the kernel without either.  reset()
\* touches neither the Context nor the _running and _tick_event flags.
\* KernelResetState is what reset() assigns apart from `_pause_event.set()`.
KernelResetState ==
    /\ tick_index' = 0
    /\ metrics_queue' = <<>>
    /\ latest_metrics' = [s \in Subsystems |-> NoSnapshot]
    /\ IF BadConfig(config_subsystems)
       THEN /\ subsystems' = SubsystemsAfterRaise(<<>>, config_subsystems)
            /\ barrier_parties' = 0
            /\ attached' = {}
            /\ error' = BootstrapError(config_subsystems)
            /\ UNCHANGED barrier_id
       ELSE /\ subsystems' = config_subsystems
            /\ barrier_parties' = BarrierSize(Len(config_subsystems))
            /\ attached' = Members(config_subsystems)
            /\ error' = "none"
            /\ barrier_id' = barrier_id + 1
    /\ barrier_state' = "filling"
    /\ barrier_count' = 0
    /\ wpc' = [w \in Subsystems |-> "unstarted"]
    /\ continue_running' = [w \in Subsystems |-> FALSE]
    /\ shutdown_flag' = [w \in Subsystems |-> FALSE]
    /\ counter' = [w \in Subsystems |-> 0]
    /\ seen' = FreshSeen
    /\ pub_tick' = [w \in Subsystems |-> 0]
    /\ spc' = "idle"
    /\ sidx' = 0
    /\ resets' = resets + 1
    /\ released' = [w \in Subsystems |-> 0]
    /\ calls' = [w \in Subsystems |-> <<>>]
    /\ rounds' = 0

\* reset() called by a client of the kernel.
Reset ==
    /\ resets < MaxResets
    /\ kpc \in {"idle", "returned"}
    /\ spc \in {"idle", "done"}
    /\ \A w \in Subsystems : wpc[w] \in {"unstarted", "done"}
    /\ KernelResetState
    /\ pause_event' = TRUE
    /\ kpc' = "idle"
    /\ pausedIncs' = 0
    /\ UNCHANGED <<setterVars, held, instances, stale_workers, controllerVars, config_subsystems, running, tick_event,
                   context_state, controls, publishes>>

\* ------------------------------------- build_subsystems_from_config, in detail
\* dict.get(key) on a parameter that the entry does not give.
Absent == "<absent>"

\* SUBSYSTEM_REGISTRY: the class (by its __name__) of each subsystem type.
SUBSYSTEM_REGISTRY ==
    [traffic |-> "TrafficManager", energy |-> "EnergyGrid",
     waste |-> "WasteOps", emergency |-> "EmergencyUnit"]

\* str.lower() on the thread names that occur.
Lower ==
    [TrafficManager |-> "trafficmanager", EnergyGrid |-> "energygrid",
     WasteOps |-> "wasteops", EmergencyUnit |-> "emergencyunit",
     T1 |-> "t1", traffic |-> "traffic"]

\* An entry of config["subsystems"]: its key and the parameters "type",
\* "thread_name" and "identifier" (Absent when not given).
Entry(key, type, thread_name, identifier) ==
    [key |-> key, type |-> type, thread_name |-> thread_name,
     identifier |-> identifier]

\* subsystem_params.get("type", subsystem_id)
SubsystemType(e) == IF e.type = Absent THEN e.key ELSE e.type

\* SUBSYSTEM_REGISTRY.get(subsystem_type) is None
UnknownType(e) == SubsystemType(e) \notin DOMAIN SUBSYSTEM_REGISTRY

\* subsystem_params.get("thread_name", subsystem_cls.__name__)
ThreadName(e) ==
    IF e.thread_name = Absent
    THEN SUBSYSTEM_REGISTRY[SubsystemType(e)] ELSE e.thread_name

\* SubsystemThread.__init__: self._config.get("identifier", name.lower())
Identifier(name, e) ==
    IF e.identifier = Absent THEN Lower[name] ELSE e.identifier

\* subsystem_cls(name=thread_name, config=subsystem_params)
Instance(e) ==
    [key |-> e.key, name |-> ThreadName(e),
     identifier |-> Identifier(ThreadName(e), e)]

\* build_subsystems_from_config(kernel, config) on a configuration whose
\* types are all registered: one instance per entry, in the entries' order.
BuildSubsystemsFromConfig(config) ==
    [i \in 1..Len(config) |-> Instance(config[i])]

\* A caller builds the workers of a configuration: KeyError at the first
\* entry of unknown type, else the list of instances.
FactoryBuild(config) ==
    /\ instances = <<>>
    /\ error = "none"
    /\ IF \E i \in 1..Len(config) : UnknownType(config[i])
       THEN error' = "factory" /\ UNCHANGED instances
       ELSE instances' = BuildSubsystemsFromConfig(config) /\ UNCHANGED error
    /\ UNCHANGED <<setterVars, rounds, held, stale_workers, controllerVars, subsystems, config_subsystems,
                   attached, barrier_id, kernelVars, barrierVars, metricVars,
                   controls, kpc, wpc, workerLocals, shutdown_flag,
                   shutdownVars, resets, historyVars>>

\* The key under which a worker publishes and is looked up by its peers:
\* publish_metrics(self.identifier, metrics).
PublishKey(instance) == instance.identifier

\* ------------------------------------------------- clients of CityContext
\* A reference a client holds to a snapshot mapping: the argument it passed to
\* update ("arg"), the mapping inside the tuple get_latest returned
\* ("latest"), or an entry of the mapping snapshot() returned ("snapshot").
\* A shared reference is the mapping stored in the Context itself; otherwise
\* value is the content of the client's own mapping.
Reference(s, origin, shared, value) ==
    [subsystem |-> s, origin |-> origin, shared |-> shared,
     value |-> IF shared THEN DefaultMetric ELSE value]

\* update stores `dict(metrics)` and snapshot() returns `dict(metrics)` for
\* each entry, which are new mappings; get_latest returns
\* `self._state.get(subsystem)`, the stored tuple with the stored mapping.
RefersToStored(origin) == origin = "latest"

\* What a client reads through a reference.
RefValue(r) == IF r.shared THEN context_state[r.subsystem][2] ELSE r.value

\* `self._state[subsystem] = ...` binds a new mapping: references to the
\* mapping stored before keep that mapping, with the content it has.
Detached(refs, s) ==
    {IF r.shared /\ r.subsystem = s
     THEN Reference(s, r.origin, FALSE, RefValue(r)) ELSE r : r \in refs}

\* A call of a client on the Context, or a mutation of a mapping it holds.
ContextCall(op, s, origin, value) ==
    [op |-> op, key |-> s, value |-> PyInt(value), result |-> origin]

\* context.update(s, tick, metrics) by a client that keeps the mapping.
ContextUpdateCall(s, tick, metrics) ==
    /\ Cardinality(held) < MaxHeld
    /\ context_state' = ContextUpdate(context_state, s, tick, metrics)
    /\ held' = Detached(held, s)
                 \cup {Reference(s, "arg", RefersToStored("arg"), metrics)}
    /\ last_call' = ContextCall("update", s, "arg", metrics)
    /\ UNCHANGED <<setterVars, rounds, instances, stale_workers, cstate, stop_event, thread, stale_kpc, consumer, history, cpc,
                   merge_log, lifecycleVars, kernelVars, barrierVars,
                   latest_metrics, metrics_queue, controls, kpc, wpc,
                   workerLocals, shutdown_flag, shutdownVars, resets,
                   historyVars>>

\* context.get_latest(s) with an entry present: the client keeps the mapping
\* of the tuple it got.
ContextGetLatestCall(s) ==
    /\ Cardinality(held) < MaxHeld
    /\ context_state[s] # NoSnapshot
    /\ held' = held \cup {Reference(s, "latest", RefersToStored("latest"),
                                    context_state[s][2])}
    /\ last_call' = ContextCall("get_latest", s, "latest", context_state[s][2])
    /\ UNCHANGED <<setterVars, rounds, instances, stale_workers, cstate, stop_event, thread, stale_kpc, consumer, history, cpc,
                   merge_log, lifecycleVars, kernelVars, barrierVars, metricVars,
                   controls, kpc, wpc, workerLocals, shutdown_flag, shutdownVars,
                   resets, historyVars>>

\* context.snapshot(): the client keeps the entry of subsystem s.
ContextSnapshotCall(s) ==
    /\ Cardinality(held) < MaxHeld
    /\ context_state[s] # NoSnapshot
    /\ held' = held \cup {Reference(s, "snapshot", RefersToStored("snapshot"),
                                    context_state[s][2])}
    /\ last_call' = ContextCall("snapshot", s, "snapshot", context_state[s][2])
    /\ UNCHANGED <<setterVars, rounds, instances, stale_workers, cstate, stop_event, thread, stale_kpc, consumer, history, cpc,
                   merge_log, lifecycleVars, kernelVars, barrierVars, metricVars,
                   controls, kpc, wpc, workerLocals, shutdown_flag, shutdownVars,
                   resets, historyVars>>

\* The client writes to a mapping it holds (mapping["x"] = value): the
\* stored mapping changes when that is the one it holds.
ClientMutates(r, value) ==
    /\ r \in held
    /\ value # RefValue(r)
    /\ IF r.shared
       THEN /\ context_state' =
                  [context_state EXCEPT ![r.subsystem] = <<@[1], value>>]
            /\ UNCHANGED held
       ELSE /\ held' = (held \ {r})
                         \cup {Reference(r.subsystem, r.origin, FALSE, value)}
            /\ UNCHANGED context_state
    /\ last_call' = ContextCall("mutate", r.subsystem, r.origin, value)
    /\ UNCHANGED <<setterVars, rounds, instances, stale_workers, cstate, stop_event, thread, stale_kpc, consumer, history, cpc,
                   merge_log, lifecycleVars, kernelVars, barrierVars,
                   latest_metrics, metrics_queue, controls, kpc, wpc,
                   workerLocals, shutdown_flag, shutdownVars, resets,
                   historyVars>>

\* ---------------------------- worker threads that a reset left behind
\* reset() once run() has returned at max_ticks, with no shutdown(): the
\* threads of the old list are neither flagged nor joined.  They are parked
\* in `self._tick_event.wait()` of the kernel they are attached to, and
\* bootstrap(force=True) only drops them from the list.
ResetAfterRun ==
    /\ resets < MaxResets
    /\ kpc = "returned"
    /\ spc = "idle"
    /\ ~BadConfig(config_subsystems)
    /\ \A w \in Members(subsystems) : wpc[w] = "wait_event"
    /\ \A w \in Subsystems : stale_workers[w] = NoThread
    /\ stale_workers' =
          [w \in Subsystems |->
              IF w \in Members(subsystems)
              THEN StaleThread("wait_event", FALSE, counter[w]) ELSE NoThread]
    /\ KernelResetState
    /\ pause_event' = TRUE
    /\ kpc' = "idle"
    /\ pausedIncs' = 0
    /\ UNCHANGED <<setterVars, held, instances, controllerVars, config_subsystems, running,
                   tick_event, context_state, controls, publishes>>

\* wait_for_tick of an old thread: `self._tick_event.wait()` returns (the
\* event is the kernel's, which the new run sets) and
\* `return self._running.is_set()`.  (A worker and an old thread can trip the
\* barrier between them again and again while the tick event stays set: an
\* old thread is followed for MaxThreadTicks ticks.)
StaleWaitForTick(w) ==
    /\ stale_workers[w].pc = "wait_event"
    /\ stale_workers[w].counter < MaxThreadTicks
    /\ tick_event
    /\ stale_workers' =
          [stale_workers EXCEPT ![w] =
              StaleThread("barrier_enter", running, @.counter)]
    /\ UNCHANGED <<setterVars, rounds, held, instances, controllerVars, lifecycleVars, kernelVars,
                   barrierVars, metricVars, controls, kpc, wpc, workerLocals,
                   shutdown_flag, shutdownVars, resets, historyVars>>

\* Where an old thread goes after signal_tick_complete.
StaleAfterBarrier(old) ==
    StaleThread(IF old.continue THEN "hooks" ELSE "done", FALSE, old.counter)

\* signal_tick_complete of an old thread: `self._tick_barrier.wait()` reads
\* the kernel's attribute, which is the barrier of the latest bootstrap.
StaleBarrierEnter(w) ==
    /\ stale_workers[w].pc = "barrier_enter"
    /\ BarrierCanEnter
    /\ \/ /\ barrier_state = "broken"
          /\ stale_workers' =
                [stale_workers EXCEPT ![w] = StaleAfterBarrier(@)]
          /\ UNCHANGED <<barrier_state, barrier_count, released>>
       \/ /\ barrier_state = "filling"
          /\ BarrierTrips
          /\ barrier_count' = barrier_count
          /\ barrier_state' = StateAfterExit(barrier_count, "draining")
          /\ released' = Release({})
          /\ stale_workers' =
                [stale_workers EXCEPT ![w] = StaleAfterBarrier(@)]
       \/ /\ barrier_state = "filling"
          /\ ~BarrierTrips
          /\ barrier_count' = barrier_count + 1
          /\ stale_workers' =
                [stale_workers EXCEPT ![w] =
                    StaleThread("barrier_wait", @.continue, @.counter)]
          /\ UNCHANGED <<barrier_state, released>>
    /\ UNCHANGED <<setterVars, rounds, held, instances, controllerVars, lifecycleVars, kernelVars,
                   barrier_parties, metricVars, controls, kpc, wpc,
                   workerLocals, shutdown_flag, shutdownVars, resets,
                   pausedIncs, calls>>

\* An old thread wakes in Barrier._wait.
StaleBarrierWake(w) ==
    /\ stale_workers[w].pc = "barrier_wait"
    /\ BarrierWakes
    /\ barrier_count' = barrier_count - 1
    /\ barrier_state' = StateAfterExit(barrier_count - 1, barrier_state)
    /\ stale_workers' = [stale_workers EXCEPT ![w] = StaleAfterBarrier(@)]
    /\ UNCHANGED <<setterVars, rounds, held, instances, controllerVars, lifecycleVars, kernelVars,
                   barrier_parties, metricVars, controls, kpc, wpc,
                   workerLocals, shutdown_flag, shutdownVars, resets,
                   historyVars>>

\* An old thread runs the body of its loop: the hooks and, for a class that
\* returns a snapshot, publish_metrics under its identifier; then the loop
\* test (its own _shutdown event was never set) and wait_for_tick again.
StaleTick(w) ==
    /\ stale_workers[w].pc = "hooks"
    /\ stale_workers' =
          [stale_workers EXCEPT ![w] =
              StaleThread("wait_event", FALSE, @.counter + 1)]
    /\ IF publishes[w]
       THEN /\ context_state' = ContextUpdate(context_state, w, CurrentTick,
                                              stale_workers[w].counter)
            /\ latest_metrics' =
                  [latest_metrics EXCEPT ![w] = <<stale_workers[w].counter>>]
            /\ metrics_queue' =
                  PutNowait(metrics_queue,
                            MetricsEvent(w, CurrentTick,
                                         stale_workers[w].counter))
       ELSE UNCHANGED metricVars
    /\ UNCHANGED <<setterVars, rounds, held, instances, controllerVars, lifecycleVars, kernelVars,
                   barrierVars, controls, kpc, wpc, workerLocals,
                   shutdown_flag, shutdownVars, resets, historyVars>>

\* The threads a reset left behind.
StaleWorker(w) ==
    \/ StaleWaitForTick(w)
    \/ StaleBarrierEnter(w)
    \/ StaleBarrierWake(w)
    \/ StaleTick(w)

\* ------------------------------------------------- SimulationController
\* Thread.is_alive() of a runner thread at position pc.
Alive(pc) == pc \notin {"none", "idle", "finished"}

\* A runner thread that waits for something no thread has provided yet.
RunnerBlocked(pc) ==
    \/ pc = "pause" /\ ~pause_event
    \/ pc = "barrier_enter" /\ ~BarrierCanEnter
    \/ pc = "barrier_wait" /\ ~BarrierWakes
    \/ pc = "orphaned"

\* stop() and reset(): `if self._thread and self._thread.is_alive():
\* self._thread.join(timeout=3)` and the same for the consumer have returned.
\* The runner has ended or the timeout expired on a blocked one; the consumer
\* polls the stop signal every 0.5 s and has ended.
Joined ==
    /\ ~(thread /\ Alive(kpc)) \/ RunnerBlocked(kpc)
    /\ consumer \in {"none", "done"}

\* A call of the controller, with its outcome.
ControllerCall(op, result) ==
    [op |-> op, key |-> "none", value |-> PyNone, result |-> result]

\* start(): refused while `self._thread` is alive; otherwise kernel.reset(),
\* set_control_state(self.controls.to_dict()), _stop_event.clear() and the
\* launch of the runner and of the consumer thread.  Modelled for a
\* configuration bootstrap succeeds on and a ControlState whose to_dict can
\* be called.
Start ==
    /\ cpc = "idle"
    /\ IF thread /\ Alive(kpc)
       THEN /\ last_call' = ControllerCall("start", "refused")
            /\ UNCHANGED <<rounds, stop_event, thread, consumer, kernelVars, barrierVars,
                           metricVars, controls, kpc, wpc, continue_running,
                           counter, seen, pub_tick, shutdown_flag, shutdownVars,
                           resets, subsystems, attached, barrier_id, error,
                           merge_log, historyVars>>
       ELSE /\ resets < MaxControllerResets
            /\ ~BadConfig(config_subsystems)
            /\ ToDictCallable(cstate)
            /\ KernelResetState
            /\ pause_event' = PauseEventAfter(TRUE, ToDict(cstate))
            /\ controls' = UpdateControls(controls, ToDict(cstate))
            /\ pausedIncs' = 0
            /\ merge_log' = [n |-> IF merge_log.n < 2 THEN merge_log.n + 1 ELSE 2,
                             base |-> merge_log.mid, mid |-> controls,
                             p1 |-> merge_log.p2, p2 |-> ToDict(cstate)]
            /\ stop_event' = FALSE
            /\ thread' = TRUE
            /\ kpc' = "spawned"
            /\ consumer' = "check"
            /\ last_call' = ControllerCall("start", "started")
            /\ UNCHANGED <<running, tick_event, context_state>>
    /\ UNCHANGED <<setterVars, held, instances, stale_workers, cstate, stale_kpc, history, cpc, config_subsystems, publishes>>

\* _run_kernel_loop: the runner thread calls kernel.run(), which passes the
\* guard, sets _running and starts every subsystem thread.
RunKernelLoop ==
    /\ kpc = "spawned"
    /\ Bootstrapped
    /\ running' = TRUE
    /\ wpc' = [w \in Subsystems |->
                 IF w \in Members(subsystems) THEN "loop" ELSE wpc[w]]
    /\ kpc' = "head"
    /\ error' = "none"
    /\ UNCHANGED <<setterVars, rounds, held, instances, stale_workers, controllerVars, subsystems, config_subsystems, attached,
                   barrier_id, tick_event, tick_index, pause_event, barrierVars,
                   metricVars, controls, workerLocals, shutdown_flag,
                   shutdownVars, resets, historyVars>>

\* _run_kernel_loop: `finally: self._stop_event.set()` once run() returned.
RunKernelLoopFinally ==
    /\ kpc = "returned"
    /\ stop_event' = TRUE
    /\ kpc' = "finished"
    /\ UNCHANGED <<setterVars, rounds, held, instances, stale_workers, cstate, thread, stale_kpc, consumer, history, cpc, last_call,
                   merge_log, lifecycleVars, kernelVars, barrierVars, metricVars,
                   controls, wpc, workerLocals, shutdown_flag, shutdownVars,
                   resets, historyVars>>

\* A runner thread the controller dropped while it waited in
\* `self._pause_event.wait()` goes on once the event is set: it evaluates
\* _should_continue() and leaves the loop, or goes round it again beside the
\* new runner (its steps from there on are not followed).
StaleLoop ==
    /\ stale_kpc = "pause"
    /\ pause_event
    /\ stale_kpc' = IF ShouldContinue THEN "open" ELSE "exit"
    /\ UNCHANGED <<setterVars, rounds, held, instances, stale_workers, cstate, stop_event, thread, consumer, history, cpc, last_call,
                   merge_log, lifecycleVars, kernelVars, barrierVars, metricVars,
                   controls, kpc, wpc, workerLocals, shutdown_flag, shutdownVars,
                   resets, historyVars>>

\* The dropped runner leaves run() (`finally: self._running.clear()`) and
\* _run_kernel_loop (`finally: self._stop_event.set()`).
StaleExit ==
    /\ stale_kpc = "exit"
    /\ running' = FALSE
    /\ stop_event' = TRUE
    /\ stale_kpc' = "finished"
    /\ UNCHANGED <<setterVars, rounds, held, instances, stale_workers, cstate, thread, consumer, history, cpc, last_call, merge_log,
                   lifecycleVars, tick_event, tick_index, pause_event,
                   barrierVars, metricVars, controls, kpc, wpc, workerLocals,
                   shutdown_flag, shutdownVars, resets, historyVars>>

\* _consume_metrics: `while not self._stop_event.is_set():`
ConsumerCheck ==
    /\ consumer = "check"
    /\ consumer' = IF stop_event THEN "done" ELSE "get"
    /\ UNCHANGED <<setterVars, rounds, held, instances, stale_workers, cstate, stop_event, thread, stale_kpc, history, cpc, last_call,
                   merge_log, lifecycleVars, kernelVars, barrierVars, metricVars,
                   controls, kpc, wpc, workerLocals, shutdown_flag, shutdownVars,
                   resets, historyVars>>

\* Mutant of HistoryAppend: a full bucket drops the new entry.
HistoryAppendKeepsOldest(bucket, entry) ==
    IF Len(bucket) + 1 > HistoryLimit THEN bucket ELSE Append(bucket, entry)

\* `bucket.append((tick, metrics))` and the cut to the last _history_limit
\* entries.
HistoryAppend(bucket, entry) ==
    IF Len(bucket) + 1 > HistoryLimit
    THEN SubSeq(Append(bucket, entry), Len(bucket) + 2 - HistoryLimit,
                Len(bucket) + 1)
    ELSE Append(bucket, entry)

\* _consume_metrics: metrics_stream(timeout=0.5) returns None on an empty
\* stream; a shutdown event ends the thread; a metrics event is appended to
\* the history of its subsystem.
ConsumerGet ==
    /\ consumer = "get"
    /\ IF metrics_queue = <<>>
       THEN /\ consumer' = "check"
            /\ UNCHANGED <<metrics_queue, history>>
       ELSE /\ metrics_queue' = Tail(metrics_queue)
            /\ IF Head(metrics_queue).type = "shutdown"
               THEN consumer' = "done" /\ UNCHANGED history
               ELSE /\ consumer' = "check"
                    /\ history' =
                          [history EXCEPT ![Head(metrics_queue).subsystem] =
                              HistoryAppend(@, <<Head(metrics_queue).tick,
                                                 Head(metrics_queue).metrics>>)]
    /\ UNCHANGED <<setterVars, rounds, held, instances, stale_workers, cstate, stop_event, thread, stale_kpc, cpc, last_call,
                   merge_log, lifecycleVars, kernelVars, barrierVars,
                   context_state, latest_metrics, controls, kpc, wpc,
                   workerLocals, shutdown_flag, shutdownVars, resets,
                   historyVars>>

\* stop() and reset() begin: `with self._lock: self._stop_event.set()`.
StopOrResetBegins(op) ==
    /\ cpc = "idle"
    /\ op = "reset" => resets < MaxControllerResets
    /\ stop_event' = TRUE
    /\ cpc' = op
    /\ last_call' = ControllerCall(op, "called")
    /\ UNCHANGED <<setterVars, rounds, held, instances, stale_workers, cstate, thread, stale_kpc, consumer, history, merge_log,
                   lifecycleVars, kernelVars, barrierVars, metricVars, controls,
                   kpc, wpc, workerLocals, shutdown_flag, shutdownVars, resets,
                   historyVars>>

\* stop() and reset() call self.kernel.shutdown(): self._running.clear()
SClearRunningForController ==
    /\ cpc \in {"stop", "reset"}
    /\ spc \in {"idle", "done"}
    /\ last_call.result = "called"
    /\ running' = FALSE
    /\ spc' = "abort"
    /\ last_call' = ControllerCall(cpc, "shutdown")
    /\ UNCHANGED <<setterVars, rounds, held, instances, stale_workers, cstate, stop_event, thread, stale_kpc, consumer, history, cpc,
                   merge_log, lifecycleVars, tick_event, tick_index, pause_event,
                   barrierVars, metricVars, controls, kpc, wpc, workerLocals,
                   shutdown_flag, sidx, resets, historyVars>>

\* stop() returns after shutdown() and the two joins.
StopReturns ==
    /\ cpc = "stop"
    /\ last_call.result = "shutdown"
    /\ spc = "done"
    /\ Joined
    /\ cpc' = "idle"
    /\ last_call' = ControllerCall("stop", "returned")
    /\ UNCHANGED <<setterVars, rounds, held, instances, stale_workers, cstate, stop_event, thread, stale_kpc, consumer, history,
                   merge_log, lifecycleVars, kernelVars, barrierVars, metricVars,
                   controls, kpc, wpc, workerLocals, shutdown_flag, shutdownVars,
                   resets, historyVars>>

\* Mutant of ControlStateAfterReset: reset() keeps the ControlState.
ControlStateAfterResetKept(cs) == cs

\* reset(): `self.controls = ControlState()`
ControlStateAfterReset(cs) == DefaultControlState

\* reset() after shutdown() and the two joins: the thread references are
\* dropped, the ControlState is replaced by a default one, kernel.reset(),
\* the history is cleared and the control state is pushed into the kernel.
\* A runner that is still alive (the join timed out) is followed as the
\* dropped runner; workers that shutdown() could not join are not followed
\* once bootstrap(force=True) has replaced them.
ResetReturns ==
    /\ cpc = "reset"
    /\ last_call.result = "shutdown"
    /\ spc = "done"
    /\ Joined
    /\ Alive(kpc) => ~Alive(stale_kpc)
    /\ ~BadConfig(config_subsystems)
    /\ thread' = FALSE
    /\ stale_kpc' = IF Alive(kpc) THEN kpc ELSE stale_kpc
    /\ kpc' = "idle"
    /\ consumer' = "none"
    /\ cstate' = ControlStateAfterReset(cstate)
    /\ KernelResetState
    /\ history' = [s \in Subsystems |-> <<>>]
    /\ pause_event' = PauseEventAfter(TRUE, ToDict(cstate'))
    /\ controls' = UpdateControls(controls, ToDict(cstate'))
    /\ pausedIncs' = 0
    /\ merge_log' = [n |-> IF merge_log.n < 2 THEN merge_log.n + 1 ELSE 2,
                     base |-> merge_log.mid, mid |-> controls,
                     p1 |-> merge_log.p2, p2 |-> ToDict(cstate')]
    /\ cpc' = "idle"
    /\ last_call' = ControllerCall("reset", "returned")
    /\ UNCHANGED <<setterVars, held, instances, stale_workers, stop_event, config_subsystems, running, tick_event,
                   context_state, publishes>>

\* ---------------------------------------------------------- specification
\* One kernel lifetime: bootstrap, run, the workers, and shutdown.
Lifetime ==
    \/ Bootstrap
    \/ RunStart
    \/ KLoopHead
    \/ KOpenTick
    \/ KBarrierEnter
    \/ KBarrierWake
    \/ KClearTick
    \/ KIncrement
    \/ KPauseWait
    \/ KExit
    \/ \E w \in Subsystems : Worker(w)
    \/ SClearRunning
    \/ SAbortBarrier
    \/ SSetTickEvent
    \/ SFlagWorker
    \/ SJoinWorker
    \/ SPutShutdownEvent

\* A kernel lifetime with a caller that pauses and resumes at any moment.
Next ==
    \/ Lifetime
    \/ \E p \in BOOLEAN : SetControlState(p)

Spec == Init /\ [][Next]_vars

\* Kernel lifetimes separated by reset().
NextReset ==
    \/ Lifetime
    \/ Reset

SpecReset == Init /\ [][NextReset]_vars

\* The steps of the thread that bootstraps the kernel and calls run().
KernelThread ==
    \/ Bootstrap
    \/ RunStart
    \/ KLoopHead
    \/ KOpenTick
    \/ KBarrierEnter
    \/ KBarrierWake
    \/ KClearTick
    \/ KIncrement
    \/ KPauseWait
    \/ KExit

\* The steps of a call of shutdown().
ShutdownCall ==
    \/ SClearRunning
    \/ SAbortBarrier
    \/ SSetTickEvent
    \/ SFlagWorker
    \/ SJoinWorker
    \/ SPutShutdownEvent

\* A kernel lifetime in which shutdown() may also arrive during the run.
NextStop ==
    \/ Lifetime
    \/ SClearRunningDuringRun

SpecStop == Init /\ [][NextStop]_vars

\* Kernel lifetimes separated by reset(), with a consumer that takes events
\* from the stream at any pace.
NextStream ==
    \/ Lifetime
    \/ Reset
    \/ MetricsStream

SpecStream == Init /\ [][NextStream]_vars

\* A kernel constructed with the two-subsystem configuration or with a
\* configuration that names no subsystem; worker A is of a class that
\* publishes, worker B of one that does not.
InitAnyConfig ==
    /\ Constructed
    /\ config_subsystems \in {<<>>, SubsystemOrder}
    /\ publishes = [w \in Subsystems |-> w = "A"]

\* A kernel lifetime with callers that register workers, bootstrap and run in
\* any order.
NextLifecycle ==
    \/ Lifetime
    \/ BootstrapFails
    \/ \E ws \in RegisterInputs : RegisterSubsystems(ws)
    \/ RunRejected

SpecLifecycle == InitAnyConfig /\ [][NextLifecycle]_vars

\* A kernel constructed with one of three configurations: two subsystems, no
\* subsystem, or a subsystem of a type the registry does not hold.
InitConfigs ==
    /\ Constructed
    /\ config_subsystems \in {<<>>, SubsystemOrder, <<"A", "X">>}
    /\ publishes = [w \in Subsystems |-> w = "A"]

\* The lifecycle callers, with a caller of bootstrap(force=True).
NextForce ==
    \/ NextLifecycle
    \/ BootstrapForce

SpecForce == InitConfigs /\ [][NextForce]_vars

\* A kernel lifetime whose shutdown() may be called again once it completed.
NextRestop ==
    \/ Lifetime
    \/ SClearRunningAgain

SpecRestop == Init /\ [][NextRestop]_vars

\* A lifetime in which a hook of any worker may raise in any tick.
NextFail ==
    \/ Lifetime
    \/ \E w \in Subsystems : WHooksRaise(w)

\* Every thread that can take a step eventually takes one (the scheduler
\* starves no thread; hooks terminate).
Fairness ==
    /\ WF_vars(KernelThread)
    /\ WF_vars(ShutdownCall)
    /\ \A w \in Subsystems : WF_vars(Worker(w))

\* One kernel lifetime, never paused, under a fair scheduler.
SpecLive == Init /\ [][Lifetime]_vars /\ Fairness

\* A lifetime in which hooks may raise, under a fair scheduler.
SpecFailLive == Init /\ [][NextFail]_vars /\ Fairness

\* A lifetime with shutdown() arriving at any moment, under a fair scheduler.
SpecStopLive == Init /\ [][NextStop]_vars /\ Fairness

\* A configuration in which subsystem A publishes a snapshot every tick and
\* subsystem B is of a class that publishes none.
InitOnePublisher ==
    /\ Init
    /\ publishes = [w \in Subsystems |-> w = "A"]

\* A lifetime in which a caller pauses the kernel and never resumes it, and
\* shutdown() arrives at any moment.
NextPauseStop ==
    \/ Lifetime
    \/ SClearRunningDuringRun
    \/ SetControlState(TRUE)

SpecPauseStopLive == InitOnePublisher /\ [][NextPauseStop]_vars /\ Fairness

\* A kernel lifetime with a caller that calls bootstrap() again.
NextRebootstrap ==
    \/ Lifetime
    \/ Rebootstrap

SpecRebootstrap == InitOnePublisher /\ [][NextRebootstrap]_vars

\* Clients that call set_control on a controller that was never started.
NextSetControl == \E kv \in ControlInputs : SetControl(kv[1], kv[2])

SpecSetControl == InitOnePublisher /\ [][NextSetControl]_vars

\* Clients that pause and resume through the controller and clients that
\* call set_control_state on the kernel themselves.
NextControls ==
    \/ \E b \in BOOLEAN : SetControl("paused", PyBool(b))
    \/ \E partial \in PartialInputs : SetControlStateCall(partial)

SpecControls == InitOnePublisher /\ [][NextControls]_vars

\* A kernel with one subsystem, which publishes every tick, driven by a
\* SimulationController.
InitController ==
    /\ Constructed
    /\ config_subsystems = <<"A">>
    /\ publishes = [w \in Subsystems |-> w = "A"]

\* The threads of a controller-driven kernel: the runner, the workers, the
\* consumer and the thread inside reset().
ControllerThreads ==
    \/ RunKernelLoop
    \/ KLoopHead
    \/ KOpenTick
    \/ KBarrierEnter
    \/ KBarrierWake
    \/ KClearTick
    \/ KIncrement
    \/ KPauseWait
    \/ KExit
    \/ RunKernelLoopFinally
    \/ \E w \in Subsystems : Worker(w)
    \/ SClearRunningForController
    \/ SAbortBarrier
    \/ SSetTickEvent
    \/ SFlagWorker
    \/ SJoinWorker
    \/ SPutShutdownEvent
    \/ ResetReturns
    \/ StaleLoop
    \/ StaleExit
    \/ ConsumerCheck
    \/ ConsumerGet

\* The workers and the consumer of the previous run have ended.
PreviousRunEnded ==
    /\ consumer \in {"none", "done"}
    /\ \A w \in Subsystems : wpc[w] \in {"unstarted", "done"}

\* The clients of the controller: start, reset and pause, one call at a
\* time.  start is called while the runner is alive, or once every thread of
\* the previous run has ended; reset is called once the runner thread has
\* entered kernel.run (a shutdown that overtakes the runner's start-up leaves
\* the workers spinning on the broken barrier until they are flagged).
NextController ==
    \/ ControllerThreads
    \/ /\ (thread /\ Alive(kpc)) \/ (PreviousRunEnded /\ ~Alive(stale_kpc))
       /\ Start
    \/ /\ kpc # "spawned"
       /\ StopOrResetBegins("reset")
    \/ SetControl("paused", PyBool(TRUE))

SpecController == InitController /\ [][NextController]_vars

\* The same clients, with a start that may follow a reset at once: the
\* workers and the consumer of the previous run have ended, a runner the
\* controller dropped may still be alive.
NextRestart ==
    \/ ControllerThreads
    \/ /\ (thread /\ Alive(kpc)) \/ PreviousRunEnded
       /\ Start
    \/ /\ kpc # "spawned"
       /\ StopOrResetBegins("reset")
    \/ SetControl("paused", PyBool(TRUE))

SpecRestart == InitController /\ [][NextRestart]_vars

\* The history bucket n consumed events of earlier runs leave behind: start()
\* and stop() keep the history, and each run of MaxTicksBound ticks adds the
\* entries (1, 0), (2, 1), ...
EarlierRuns(n) ==
    [i \in 1..n |-> <<((i - 1) % MaxTicksBound) + 1, (i - 1) % MaxTicksBound>>]

\* A controller whose history bucket of "A" is full, or one or two entries
\* short of full, when the next run is started.
InitHistory ==
    /\ ConstructedButHistory
    /\ config_subsystems = <<"A">>
    /\ publishes = [w \in Subsystems |-> w = "A"]
    /\ \E n \in (HistoryLimit - 2)..HistoryLimit :
          history = [s \in Subsystems |->
                       IF s = "A" THEN EarlierRuns(n) ELSE <<>>]

\* The threads of a run the controller started: the runner, the workers and
\* the consumer.
RunThreads ==
    \/ RunKernelLoop
    \/ KLoopHead
    \/ KOpenTick
    \/ KBarrierEnter
    \/ KBarrierWake
    \/ KClearTick
    \/ KIncrement
    \/ KPauseWait
    \/ KExit
    \/ RunKernelLoopFinally
    \/ \E w \in Subsystems : Worker(w)
    \/ ConsumerCheck
    \/ ConsumerGet

\* The thread inside stop().
StopThread ==
    \/ SClearRunningForController
    \/ SAbortBarrier
    \/ SSetTickEvent
    \/ SFlagWorker
    \/ SJoinWorker
    \/ SPutShutdownEvent
    \/ StopReturns

\* One run, started by the controller and stopped at any moment after the
\* runner thread has entered kernel.run; start() called again during the
\* run is refused.
NextHistory ==
    \/ RunThreads
    \/ StopThread
    \/ /\ ~thread \/ Alive(kpc)
       /\ Start
    \/ /\ thread /\ kpc # "spawned"
       /\ StopOrResetBegins("stop")

SpecHistory == InitHistory /\ [][NextHistory]_vars

\* Runs the controller started that end by themselves, at max_ticks: the
\* client calls stop() only once the runner thread has finished, and may
\* start the next run after that.
NextNaturalEnd ==
    \/ RunThreads
    \/ StopThread
    \/ /\ ~thread
       /\ Start
    \/ /\ kpc = "finished"
       /\ StopOrResetBegins("stop")

SpecNaturalEnd == InitController /\ [][NextNaturalEnd]_vars

\* A client of a Context alone: it updates entries, reads them with
\* get_latest and snapshot(), and writes to the mappings it holds.
NextContext ==
    \/ \E s \in Subsystems, tick \in 0..MaxClientTick,
          metrics \in 0..MaxClientMetric : ContextUpdateCall(s, tick, metrics)
    \/ \E s \in Subsystems : ContextGetLatestCall(s)
    \/ \E s \in Subsystems : ContextSnapshotCall(s)
    \/ \E r \in held, value \in 0..MaxClientMetric : ClientMutates(r, value)

SpecContext == Init /\ [][NextContext]_vars

\* Kernel lifetimes separated by a reset() that may come as soon as run()
\* has returned, before any shutdown().
NextStale ==
    \/ Lifetime
    \/ ResetAfterRun
    \/ \E w \in Subsystems : StaleWorker(w)

SpecStale == InitController /\ [][NextStale]_vars

\* The methods each client thread calls: one pauses, resumes and toggles,
\* the other triggers emergencies.
ClientOps(t) ==
    IF t = "ui" THEN {"pause", "resume", "toggle_pause"}
    ELSE {"trigger_emergency"}

\* A controller that was never started, whose control methods are called
\* from two client threads at once.
NextSetters ==
    \/ \E t \in ControlThreads : \E op \in ClientOps(t) : SetterBegins(t, op)
    \/ TimerFires
    \/ \E t \in ControlThreads : SetterSetAttr(t)
    \/ \E t \in ControlThreads : SetterToDict(t)
    \/ \E t \in ControlThreads : SetterPauseEvent(t)
    \/ \E t \in ControlThreads : SetterUpdateControls(t)
    \/ \E t \in ControlThreads : SetterReturns(t)

SpecSetters == InitOnePublisher /\ [][NextSetters]_vars

\* The entries a configuration may hold: keys that are registered types and
\* one that is not, with each parameter given or left out.
Entries ==
    {Entry(key, type, thread_name, identifier) :
        key \in {"traffic", "energy", "depot"},
        type \in {Absent, "traffic", "tram"},
        thread_name \in {Absent, "T1", "traffic"},
        identifier \in {Absent, "traffic", "energy"}}

\* config["subsystems"] is a mapping: one or two entries with distinct keys.
Configurations ==
    {<<e>> : e \in Entries}
      \cup {<<p[1], p[2]>> :
               p \in {q \in Entries \X Entries : q[1].key # q[2].key}}

\* A caller of the factory, once, with any configuration.
NextFactory == \E config \in Configurations : FactoryBuild(config)

SpecFactory == Init /\ [][NextFactory]_vars

\* ------------------------------------------------------------------ claims
\* A worker is inside the body of its loop (its hooks or publish_metrics).
InTick(w) == wpc[w] \in {"hooks", "pub_tick", "pub_record"}

\* The number of ticks whose hooks and publish a worker has finished.
Completed(w) ==
    IF wpc[w] \in {"pub_tick", "pub_record"} THEN counter[w] - 1 ELSE counter[w]

MetricsEventsOf(w) ==
    {i \in 1..Len(metrics_queue) :
        metrics_queue[i].type = "metrics" /\ metrics_queue[i].subsystem = w}

\* C1: what a worker reads of a peer while it executes round T is absent (the
\* default) or a snapshot the peer published in an earlier round, never the
\* snapshot the peer publishes in round T itself.  (counter[s] - 1 is the
\* round s executed last; a snapshot is the round it was published in.)
C1_PeerVisibilityLag ==
    \A s \in Subsystems : \A r \in Peers(s) :
        seen[s][r] # DefaultMetric => seen[s][r] < counter[s] - 1

\* C2: with one subsystem that publishes every tick and a stream that holds
\* every event, the event of the worker's i-th executed tick carries tick = i:
\* the stream holds the ticks 0, 1, ... in that order.
C2_TickLabels ==
    (publishes["A"] /\ ~publishes["B"]) =>
        \A i \in 1..Len(metrics_queue) :
            metrics_queue[i].type = "metrics" =>
                /\ metrics_queue[i].metrics = i - 1
                /\ metrics_queue[i].tick = i - 1

\* C3: once run() has returned and the following shutdown() has completed,
\* every worker has executed exactly max_ticks ticks, has published at most
\* max_ticks events, and the tick counter equals max_ticks.
C3_FixedHorizon ==
    (kpc = "returned" /\ spc = "done") =>
        /\ tick_index = MaxTicksBound
        /\ \A w \in Subsystems :
              /\ counter[w] = MaxTicksBound
              /\ Cardinality(MetricsEventsOf(w)) <= MaxTicksBound

\* C4: the stream holds at most one metrics event per (subsystem, tick), and a
\* worker that has finished a tick has no event in a stream that never
\* overflowed exactly when its collect_metrics returns absent.
C4_PublishCardinality ==
    /\ \A i, j \in 1..Len(metrics_queue) :
          (i < j /\ metrics_queue[i].type = "metrics"
                 /\ metrics_queue[j].type = "metrics"
                 /\ metrics_queue[i].subsystem = metrics_queue[j].subsystem)
              => metrics_queue[i].tick # metrics_queue[j].tick
    /\ \A w \in Subsystems :
          (Completed(w) >= 1 /\ Len(metrics_queue) < MetricsBuffer)
              => (MetricsEventsOf(w) = {} <=> ~publishes[w])

\* C5: the kernel loop increments the tick index from T to T+1 only after
\* every worker has completed its hooks and its publish for tick T.
C5_TickClosesAfterPublishes ==
    [][tick_index' = tick_index + 1 =>
          \A w \in Subsystems : ~InTick(w) /\ Completed(w) >= tick_index + 1]_vars

\* C6: every time the kernel loop increments the tick counter, each worker
\* has been released by the barrier exactly once since the previous
\* increment, and every publish of the previous round has completed.
C6_BarrierInvariantAtIncrement ==
    [][tick_index' = tick_index + 1 =>
          \A w \in Subsystems : released[w] = 1 /\ Completed(w) >= tick_index]_vars

\* C6 witness: the loop is about to make its second increment, every worker
\* released once for the round and the first round's snapshot published.
C6_Witness ==
    /\ kpc = "inc"
    /\ tick_index = 1
    /\ \A w \in Subsystems : released[w] = 1 /\ Completed(w) >= 1
    /\ context_state["A"] # NoSnapshot

\* C7: the tick counter is increased by exactly 1 by each completed barrier
\* round of the kernel loop, is changed by nothing else during a run, never
\* decreases, and is set back to 0 only by reset.
C7_TickMonotonicity ==
    [][/\ (kpc = "inc" /\ kpc' # "inc") => tick_index' = tick_index + 1
       /\ tick_index' # tick_index =>
             \/ kpc = "inc" /\ kpc' = "pause" /\ tick_index' = tick_index + 1
             \/ resets' = resets + 1 /\ tick_index' = 0]_vars

\* C7 witness: after a run that reached max_ticks and a reset, the counter of
\* the second run has been incremented from 0 to 1.
C7_Witness ==
    /\ resets = 1
    /\ tick_index = 1
    /\ kpc = "pause"
    /\ context_state["A"] # NoSnapshot
    /\ context_state["A"][1] = MaxTicksBound

C9_PauseSafety ==
    [][(~pause_event /\ ~pause_event') => tick_index' = tick_index]_vars

\* C9 as amended: while the pause flag stays clear the counter advances at
\* most once (the round in progress), by 1, and not at all once the loop has
\* reached the pause wait; pausing and resuming leave the counter unchanged.
C9_PauseSafetyAmended ==
    [][/\ (~pause_event /\ ~pause_event') =>
             /\ pausedIncs' <= 1
             /\ tick_index' \in {tick_index, tick_index + 1}
             /\ kpc = "pause" => tick_index' = tick_index
       /\ pause_event' # pause_event => tick_index' = tick_index]_vars

\* C9 witness: paused, the loop blocked on the pause flag after the one
\* increment it made since the pause.
C9_Witness ==
    /\ ~pause_event
    /\ kpc = "pause"
    /\ pausedIncs = 1
    /\ tick_index = 1

\* C10: whenever the kernel loop is blocked on the pause flag, every worker
\* has completed its publish for the tick that just ended and no worker is
\* inside its hooks or publish_metrics.
C10_PauseBetweenTicks ==
    (kpc = "pause" /\ ~pause_event) =>
        \A w \in Subsystems : ~InTick(w) /\ Completed(w) >= tick_index

\* C11: when no hook raises, shutdown is not called during the run and the
\* kernel is not paused, every barrier round the kernel loop enters completes
\* and the tick counter reaches max_ticks, under every interleaving.
C11_DeadlockFreedom ==
    /\ (kpc \in {"barrier_enter", "barrier_wait"}) ~> (kpc = "clear_ok")
    /\ <>(tick_index = MaxTicksBound)

\* C11 witness: a worker has finished its tick and re-entered the barrier for
\* the next round before the kernel loop has cleared tick-open.
C11_Witness ==
    /\ kpc = "clear_ok"
    /\ tick_event
    /\ wpc["A"] = "barrier_wait"
    /\ counter["A"] = tick_index + 1
    /\ counter["A"] < MaxTicksBound

\* C12: once shutdown() has cleared the running flag and aborted the barrier,
\* no worker starts another tick: no worker enters its hooks, and a worker
\* that leaves the barrier or the tick-open wait goes on to on_stop.
C12_BrokenBarrierCleanExit ==
    [][(spc \notin {"idle", "abort"}) =>
          \A w \in Subsystems : wpc'[w] = "hooks" => wpc[w] = "hooks"]_vars

\* C13: after shutdown() is called, every started worker eventually leaves
\* its loop, runs on_stop and terminates, wherever it was when the call came.
C13_ShutdownWakesWorkers ==
    (spc # "idle") ~> (\A w \in Subsystems : wpc[w] \in {"unstarted", "done"})

\* C14: after shutdown() is called on a running kernel, run() eventually
\* returns with the running flag cleared, wherever the loop was, also when it
\* is blocked on the pause flag and nobody resumes.
C14_ShutdownStopsKernel ==
    (spc # "idle") ~> (kpc = "returned" /\ ~running)

\* C15: when a hook of a worker raises during a tick, run() eventually
\* returns (the kernel's next barrier wait breaks) and no other worker stays
\* blocked in the barrier.
C15_FailureTerminatesKernel ==
    (\E w \in Subsystems : wpc[w] = "raised") ~>
        (kpc = "returned" /\ \A w \in Subsystems : wpc[w] # "barrier_wait")

\* The stream holds an event of subsystem s that carries the metrics m.
InStream(s, m) ==
    \E i \in 1..Len(metrics_queue) :
        /\ metrics_queue[i].type = "metrics"
        /\ metrics_queue[i].subsystem = s
        /\ metrics_queue[i].metrics = m

C17_PutOrDrop ==
    /\ [](\A w \in Subsystems : wpc[w] = "pub_record" => ENABLED WPublishRecord(w))
    /\ [][\A w \in Subsystems :
            (wpc[w] = "pub_record" /\ wpc'[w] # "pub_record"
                /\ Len(metrics_queue) = MetricsBuffer)
            => /\ metrics_queue' = metrics_queue
               /\ context_state'[w] = <<pub_tick[w], Snapshot(w)>>
               /\ wpc'[w] = "loop"]_vars
    /\ <>(kpc = "returned" /\ tick_index = MaxTicksBound)

\* C17 witness: the run has completed all its ticks with a full stream, and
\* a snapshot recorded in the Context has no event in the stream.
C17_Witness ==
    /\ kpc = "returned"
    /\ tick_index = MaxTicksBound
    /\ Len(metrics_queue) = MetricsBuffer
    /\ \E w \in Subsystems :
          /\ context_state[w] # NoSnapshot
          /\ ~InStream(w, context_state[w][2])

\* C18: a run's stream holds at most one shutdown event and no metrics event
\* is enqueued after it, also when shutdown() is called more than once: a
\* shutdown event in the stream is its last event.
C18_ShutdownEventEndsStream ==
    \A i \in 1..Len(metrics_queue) :
        metrics_queue[i].type = "shutdown" => i = Len(metrics_queue)

\* C19: run() on a kernel that has no barrier (never bootstrapped, or its
\* bootstrap failed for want of subsystems) raises and has no effect: while
\* there is no barrier no step sets the running flag, starts a worker, moves
\* the tick counter or enters the loop, and the call that raises is such a step.
C19_RunGuard ==
    [][/\ barrier_parties = 0 =>
             /\ running' = running
             /\ wpc' = wpc
             /\ tick_index' = tick_index
             /\ kpc' = kpc
       /\ (error' = "run" /\ error # "run") =>
             /\ barrier_parties = 0
             /\ ~running' /\ kpc' = "idle"
             /\ \A w \in Subsystems : wpc'[w] = "unstarted"]_vars

\* C19 witness: workers were registered, no bootstrap followed, and run()
\* has raised: nothing runs.
C19_Witness ==
    /\ error = "run"
    /\ subsystems # <<>>
    /\ barrier_parties = 0
    /\ ~running
    /\ kpc = "idle"
    /\ \A w \in Subsystems : wpc[w] = "unstarted"

\* C20: register_subsystems after bootstrap raises and leaves the worker list
\* and the barrier unchanged; before bootstrap it appends the given workers;
\* the bootstrap that follows keeps exactly the registered workers (the
\* factory's are not added), attaches each of them and builds a barrier for
\* their number plus one.
C20_RegisterSubsystems ==
    [][/\ (error' = "register" /\ error # "register") =>
             /\ barrier_parties # 0
             /\ subsystems' = subsystems
             /\ UNCHANGED barrierVars
       /\ barrier_parties # 0 => subsystems' = subsystems
       /\ (barrier_parties' = 0 /\ subsystems' # subsystems) =>
             /\ Len(subsystems') > Len(subsystems)
             /\ SubSeq(subsystems', 1, Len(subsystems)) = subsystems
       /\ (barrier_parties = 0 /\ barrier_parties' # 0 /\ subsystems # <<>>) =>
             /\ subsystems' = subsystems
             /\ barrier_parties' = Len(subsystems) + 1
             /\ Members(subsystems) \subseteq attached']_vars

\* C20 witness: worker B alone was registered, bootstrap attached it and
\* built a barrier of two parties, and a later register_subsystems raised.
C20_Witness ==
    /\ config_subsystems = SubsystemOrder
    /\ subsystems = <<"B">>
    /\ attached = {"B"}
    /\ barrier_parties = 2
    /\ error = "register"

C22_BootstrapNoOp ==
    [][barrier_parties # 0 =>
          /\ subsystems' = subsystems
          /\ barrier_id' = barrier_id
          /\ kpc' # "orphaned"
          /\ \A w \in Subsystems : wpc'[w] # "orphaned"]_vars

\* C23: reset() leaves the tick counter at 0, the stream and the
\* latest-metrics cache empty, the pause flag set and a fresh worker set
\* behind a barrier of N+1 parties; in the run that follows, the first event
\* each subsystem puts on the stream carries tick 0.
C23_ResetRoundTrip ==
    [][/\ resets' = resets + 1 =>
             /\ tick_index' = 0
             /\ metrics_queue' = <<>>
             /\ latest_metrics' = [s \in Subsystems |-> NoSnapshot]
             /\ pause_event'
             /\ barrier_parties' = Len(subsystems') + 1
             /\ barrier_id' # barrier_id
             /\ \A w \in Subsystems : wpc'[w] = "unstarted" /\ counter'[w] = 0
       /\ resets' >= 1 =>
             \A i \in 1..Len(metrics_queue') :
                 (/\ metrics_queue'[i].type = "metrics"
                  /\ \A j \in 1..(i - 1) :
                        \/ metrics_queue'[j].type # "metrics"
                        \/ metrics_queue'[j].subsystem
                              # metrics_queue'[i].subsystem)
                     => metrics_queue'[i].tick = 0]_vars

\* C26: set_control with a key that is none of the nine ControlState fields
\* fails with an error and changes neither the ControlState nor
\* Context.controls nor the pause flag, and no listener is called.
C26_UnknownControlRejected ==
    [][(/\ last_call' # last_call
        /\ last_call'.op = "set_control"
        /\ last_call'.key \notin Fields) =>
          /\ last_call'.result \in {"AttributeError", "TypeError"}
          /\ UNCHANGED <<cstate, controls, pause_event>>]_vars

\* C27: when set_control(k, v) with a field k returns, get_control(k) and
\* the ControlState field k are v, and every other field has the value it
\* had before, in the ControlState and for get_control.
C27_ControlRoundTrip ==
    [][(/\ last_call' # last_call
        /\ last_call'.op = "set_control"
        /\ last_call'.key \in Fields
        /\ last_call'.result = "ok") =>
          /\ GetControl(controls', last_call'.key) = last_call'.value
          /\ cstate'[last_call'.key] = last_call'.value
          /\ \A o \in Fields \ {last_call'.key} :
                /\ cstate'[o] = cstate[o]
                /\ GetControl(controls', o) = GetControl(controls, o)]_vars

\* C28: no update_controls call removes a key, and after two calls with the
\* partials P1 and P2 every key holds P2's value if P2 has it, else P1's if
\* P1 has it, else the value it had before the two calls.
C28_MergeLaw ==
    [][/\ DOMAIN controls \subseteq DOMAIN controls'
       /\ merge_log'.n = 2 =>
             controls' =
                 [k \in DOMAIN merge_log'.base \cup DOMAIN merge_log'.p1
                          \cup DOMAIN merge_log'.p2 |->
                     IF k \in DOMAIN merge_log'.p2 THEN merge_log'.p2[k]
                     ELSE IF k \in DOMAIN merge_log'.p1 THEN merge_log'.p1[k]
                     ELSE merge_log'.base[k]]]_vars

\* C28 witness: P1 and P2 overlap on "paused" with different values, "tempo"
\* is in P1 only and "traffic_inflow" was there before both calls.
C28_Witness ==
    /\ merge_log.n = 2
    /\ merge_log.p1 = [paused |-> PyBool(TRUE), tempo |-> PyInt(3)]
    /\ merge_log.p2 = [paused |-> PyBool(FALSE)]
    /\ "traffic_inflow" \in DOMAIN merge_log.base
    /\ controls["paused"] = PyBool(FALSE)
    /\ controls["tempo"] = PyInt(3)
    /\ controls["traffic_inflow"] = merge_log.base["traffic_inflow"]

\* C29: from construction on, Context.controls holds each of the nine
\* control keys with a value of the type the ControlState declares for it.
C29_ControlsComplete ==
    \A k \in Fields :
        /\ k \in DOMAIN controls
        /\ controls[k][1] = DefaultControlState[k][1]

\* C30: set_control_state(partial) clears the pause event when
\* partial["paused"] is True and sets it when it is False; with "paused"
\* absent or not a boolean the pause event is left as it was; every key of
\* partial is stored in Context.controls as given and the other keys keep
\* their values.  (merge_log.p2 is the partial of the last call.)
C30_ControlApplication ==
    [][merge_log' # merge_log =>
          /\ ("paused" \in DOMAIN merge_log'.p2
                /\ merge_log'.p2["paused"] = PyBool(TRUE)) => ~pause_event'
          /\ ("paused" \in DOMAIN merge_log'.p2
                /\ merge_log'.p2["paused"] = PyBool(FALSE)) => pause_event'
          /\ ("paused" \notin DOMAIN merge_log'.p2
                \/ merge_log'.p2["paused"]
                      \notin {PyBool(TRUE), PyBool(FALSE)}) =>
                pause_event' = pause_event
          /\ \A k \in DOMAIN merge_log'.p2 :
                GetControl(controls', k) = merge_log'.p2[k]
          /\ \A k \in DOMAIN controls \ DOMAIN merge_log'.p2 :
                GetControl(controls', k) = controls[k]]_vars

\* C30 witness: a kernel paused by {"paused": True} was given
\* {"paused": 1}: the value is stored and the kernel is still paused.
C30_Witness ==
    /\ merge_log.n = 2
    /\ merge_log.p1 = [paused |-> PyBool(TRUE)]
    /\ merge_log.p2 = [paused |-> PyInt(1)]
    /\ controls["paused"] = PyInt(1)
    /\ ~pause_event

\* A call of start() has returned in this step.
StartReturned ==
    /\ last_call'.op = "start"
    /\ last_call' # last_call \/ resets' # resets

\* C24: start() while a runner thread is alive is refused and leaves the
\* kernel (tick counter, stream, workers, barrier), the stop signal, the
\* runner and the consumer as they were; otherwise it resets the kernel,
\* pushes the whole ControlState into the kernel, clears the stop signal and
\* launches one runner and one consumer.
C24_StartRefusedWhileAlive ==
    [][StartReturned =>
          IF Alive(kpc) \/ Alive(stale_kpc)
          THEN /\ last_call'.result = "refused"
               /\ UNCHANGED <<tick_index, metrics_queue, subsystems, wpc,
                              barrier_id, barrier_state, barrier_count,
                              stop_event, thread, kpc, stale_kpc, consumer,
                              resets>>
          ELSE /\ last_call'.result = "started"
               /\ resets' = resets + 1
               /\ tick_index' = 0
               /\ metrics_queue' = <<>>
               /\ barrier_id' = barrier_id + 1
               /\ \A k \in Fields : GetControl(controls', k) = cstate[k]
               /\ ~stop_event'
               /\ thread' /\ kpc' = "spawned"
               /\ consumer' = "check"]_vars

\* The state reset() leaves for an observer: default ControlState, every
\* control at its default in Context.controls, empty history, tick counter 0
\* and the pause event set.
ResetObservable ==
    /\ cstate = DefaultControlState
    /\ \A k \in Fields : GetControl(controls, k) = DefaultControlState[k]
    /\ history = [s \in Subsystems |-> <<>>]
    /\ tick_index = 0
    /\ pause_event

\* C25: once reset() has returned, and until the next controller call, the
\* ControlState is the default one, Context.controls holds every default,
\* the history is empty, the tick counter is 0 and the pause event is set;
\* a reset() applied to that state (no run started since) keeps it at every
\* step, up to and including its return.
C25_ResetRestoresDefaults ==
    /\ [](last_call = ControllerCall("reset", "returned") => ResetObservable)
    /\ [][(ResetObservable /\ ~thread /\ (cpc = "reset" \/ cpc' = "reset"))
             => ResetObservable']_vars

\* C25 witness: a run was paused and reset, which left its runner blocked in
\* the pause wait, and reset() was then applied a second time (the controls
\* the second reset overwrote were already the defaults).
C25_Witness ==
    /\ last_call = ControllerCall("reset", "returned")
    /\ resets = MaxControllerResets
    /\ stale_kpc = "pause"
    /\ merge_log.mid = ToDict(DefaultControlState)
    /\ ResetObservable

\* The consumer appends an event to the history in this step.
Consumed ==
    /\ consumer = "get"
    /\ metrics_queue # <<>>
    /\ Head(metrics_queue).type = "metrics"
    /\ consumer' = "check"

\* The last n elements of a sequence (all of it when it is shorter).
LastN(seq, n) ==
    IF Len(seq) <= n THEN seq ELSE SubSeq(seq, Len(seq) - n + 1, Len(seq))

\* C31: no history bucket ever holds more than 300 entries, and each consumed
\* metrics event turns the bucket of its subsystem into the last 300 entries
\* of (bucket, (tick, metrics)), leaving the other buckets alone.
C31_HistoryBound ==
    /\ [](\A s \in Subsystems : Len(history[s]) <= HistoryLimit)
    /\ [][Consumed =>
            \A s \in Subsystems :
                history'[s] =
                    IF s = Head(metrics_queue).subsystem
                    THEN LastN(Append(history[s],
                                      <<Head(metrics_queue).tick,
                                        Head(metrics_queue).metrics>>),
                               HistoryLimit)
                    ELSE history[s]]_vars

\* C31 witness: an event of the new run was consumed into a full bucket:
\* the oldest entry is gone, the others moved up and the new one is last.
C31_Witness ==
    /\ Len(history["A"]) = HistoryLimit
    /\ SubSeq(history["A"], 1, HistoryLimit - 1)
          = SubSeq(EarlierRuns(HistoryLimit), 2, HistoryLimit)
    /\ history["A"][1] # EarlierRuns(HistoryLimit)[1]
    /\ history["A"][HistoryLimit] = <<1, 0>>

\* The template methods that may be called right after method m by a worker
\* that publishes (p) or does not: the next method of the loop body, the
\* first one of the next iteration, or on_stop when the loop has ended or m
\* raised.
MayFollow(m, p) ==
    CASE m = "on_start" -> {"before_tick", "on_stop"}
      [] m = "before_tick" -> {"execute_tick", "on_stop"}
      [] m = "execute_tick" -> {"after_tick", "on_stop"}
      [] m = "after_tick" -> {"collect_metrics", "on_stop"}
      [] m = "collect_metrics" ->
            IF p THEN {"publish_metrics", "on_stop"} ELSE {"before_tick", "on_stop"}
      [] m = "publish_metrics" -> {"before_tick", "on_stop"}
      [] OTHER -> {}

\* C32: a worker thread calls on_start first and only once; the methods of a
\* tick follow each other as before_tick, execute_tick, after_tick,
\* collect_metrics and then publish_metrics exactly when the worker has a
\* snapshot; on_stop is called once, as the last call, exactly when the thread
\* has ended, whether the loop ended or a hook raised.
C32_TemplateLifecycle ==
    \A w \in Subsystems :
        /\ wpc[w] \notin {"unstarted", "loop"} => calls[w] # <<>>
        /\ \A i \in 1..Len(calls[w]) :
              /\ (calls[w][i] = "on_start") <=> (i = 1)
              /\ calls[w][i] = "on_stop" => i = Len(calls[w])
              /\ i < Len(calls[w]) =>
                    calls[w][i + 1] \in MayFollow(calls[w][i], publishes[w])
        /\ (wpc[w] = "done") <=>
              (calls[w] # <<>> /\ calls[w][Len(calls[w])] = "on_stop")

\* C32 witness: worker A ran a whole tick and published, then its
\* execute_tick raised in the next tick and on_stop was called.
C32_Witness ==
    /\ wpc["A"] = "done"
    /\ calls["A"] = <<"on_start">> \o TickHooks
                       \o <<"publish_metrics", "before_tick", "execute_tick",
                            "on_stop">>

\* A client has written to a mapping it holds in this step.
Mutated == last_call'.op = "mutate" /\ last_call' # last_call

\* C33: writing to the mapping that was passed to update, or to a mapping
\* obtained from get_latest or snapshot(), leaves every entry of the Context
\* (what get_latest and snapshot() return afterwards) as it was.
C33_DefensiveCopies ==
    [][Mutated => context_state' = context_state]_vars

\* The part of C33 that holds: writes to the mapping passed to update and to
\* a mapping obtained from snapshot() do not reach the Context.
CopiesAreDetached ==
    [][(Mutated /\ last_call'.result # "latest")
          => context_state' = context_state]_vars

\* C34: every worker the factory built publishes under the key of the
\* configuration entry it was built from, whatever its thread name, and no two
\* workers of a configuration publish under the same identifier.
C34_SubsystemIdentity ==
    /\ \A i \in 1..Len(instances) : PublishKey(instances[i]) = instances[i].key
    /\ \A i, j \in 1..Len(instances) :
          i # j => PublishKey(instances[i]) # PublishKey(instances[j])

\* A runner thread at position pc is inside the `while self._should_continue()`
\* loop of kernel.run.
InRunLoop(pc) ==
    pc \in {"head", "open", "barrier_enter", "barrier_wait", "orphaned",
            "clear_ok", "clear_broken", "inc", "pause"}

\* C35: at no time are two runner threads inside the loop of kernel.run: a
\* runner the controller dropped is not in the loop while the runner of a
\* later start is.
C35_SingleKernelLoop == ~(InRunLoop(kpc) /\ InRunLoop(stale_kpc))

\* C36: a worker thread of an earlier bootstrap never enters the barrier of
\* the new run, executes a tick or publishes after kernel.reset(): it stays
\* where the reset found it.
C36_NoStaleWorkers ==
    \A w \in Subsystems :
        stale_workers[w].pc \in {"none", "wait_event"}

\* An old thread has executed a tick of the new run and published under the
\* identifier of the new worker.
StaleWorkerPublished ==
    \E w \in Subsystems :
        /\ stale_workers[w].counter > MaxTicksBound
        /\ context_state[w] # NoSnapshot
        /\ context_state[w][2] = stale_workers[w].counter - 1

\* C37: once every control call made from the client threads and the Timer
\* thread has returned, Context.controls equals ControlState.to_dict() and
\* the kernel's pause event is clear exactly when ControlState.paused is True.
SettersReturned ==
    /\ \A t \in ControlThreads : setters[t].pc = "idle"
    /\ last_call.op = "set_control"

C37_ControlsAgree ==
    SettersReturned =>
        /\ controls = ToDict(cstate)
        /\ pause_event <=> cstate["paused"] # PyBool(TRUE)

\* C38: kernel.get_latest_metrics(s) and Context.get_latest(s) always describe
\* the same snapshot; in particular after reset(), which empties the
\* kernel's cache, the Context has no snapshot of s until s publishes again,
\* so that a get_metric on a peer returns the default until then.
C38_ResetClearsPeerMetrics ==
    \A s \in Subsystems :
        /\ latest_metrics[s] = NoSnapshot <=> context_state[s] = NoSnapshot
        /\ latest_metrics[s] # NoSnapshot =>
              latest_metrics[s][1] = context_state[s][2]

\* In the run after a reset a worker has read a peer's metric of the run
\* before, which the peer has not published in this run.
PeerMetricOfEarlierRun ==
    \E w \in Subsystems : \E r \in Peers(w) :
        /\ resets > 0
        /\ latest_metrics[r] = NoSnapshot
        /\ seen[w][r] # DefaultMetric

\* C39: the numbers of ticks any two workers have begun differ by at most
\* one, and no worker has begun more ticks than there were rounds in which
\* the kernel thread set the tick event and called the barrier's wait().
C39_LockStep ==
    /\ \A v \in Members(subsystems) : \A w \in Members(subsystems) :
          counter[v] - counter[w] <= 1
    /\ \A w \in Members(subsystems) : counter[w] <= rounds

\* start() was the last call a client made: the run goes on, or has ended,
\* without any stop() or reset().
OnlyStarted ==
    /\ last_call.op = "start"
    /\ cpc = "idle"

\* In such a run the stream never fills up, so that no event is dropped.
StreamNeverFull == OnlyStarted => Len(metrics_queue) < MetricsBuffer

\* C40: in a run that ends at max_ticks, with no overflow of the stream, the
\* metrics consumer does not stop while published metrics events are still
\* in the stream (every published event reaches the history buffer).
C40_HistoryComplete ==
    (OnlyStarted /\ consumer = "done") =>
        \A i \in DOMAIN metrics_queue : metrics_queue[i].type # "metrics"

\* The consumer has stopped, and afterwards a worker has published the
\* snapshot of its last tick into the stream.
PublishedAfterConsumerStopped ==
    /\ OnlyStarted
    /\ consumer = "done"
    /\ kpc = "finished"
    /\ Len(metrics_queue) = MaxTicksBound
    /\ history["A"] = <<>>

====
